---------------------------- MODULE Spec2Model ----------------------------
(***************************************************************************)
(* Kartographer: the client-side map view controller.                      *)
(*                                                                         *)
(*   src/includes/DataModule.php      lines 91-1006: the KartographerMap   *)
(*                                    class (box/Map.js)                   *)
(*   src/modules/mapframe/mapframe.js the registry of <mapframe> maps and  *)
(*                                    the full-screen route                *)
(*                                                                         *)
(* JavaScript runs one handler at a time to completion, so every action    *)
(* below is one handler (an API call, a promise callback, a hook, a route  *)
(* dispatch) with every call it makes.  Handlers are written as functions  *)
(* from a state record to a state record, in the order of the statements   *)
(* of the source; an action applies one of them to the current state.      *)
(*                                                                         *)
(* Coordinates are integers counting 1e-5 degree, the finest grain the     *)
(* route pattern can carry; zoom levels are integers.                      *)
(***************************************************************************)
EXTENDS Integers, Sequences, FiniteSets, TLC

(***************************************************************************)
(* Bounds of the model.                                                    *)
(***************************************************************************)
\* KartographerMap objects constructed in one run (top-level and children)
MaxInstances == 3
\* doWhenReady callbacks waiting on one instance, and mw.loader.using
\* callbacks waiting to run
MaxPending == 2
\* maps constructed through kartobox.map by code outside the two modules
MaxBoxes == 1
\* firings of the wikipage.content hook
MaxFirings == 2
\* doWhenReady calls made by code outside the class
MaxProbes == 2

\* window resize events in one run
MaxResizes == 3
MaxAdds == 2
MaxViews == 2
MaxHashes == 2

Ids == 1 .. MaxInstances
\* null / no object
None == 0

(***************************************************************************)
(* JavaScript values.                                                      *)
(***************************************************************************)
Undefined == [t |-> "undefined"]
NaN == [t |-> "NaN"]
Num(v) == [t |-> "num", v |-> v]
\* isNaN( x ): true of NaN and of undefined
isNaN(x) == x.t # "num"
\* a two-entry array [ a, b ] and an L.LatLng object
Arr(a, b) == [t |-> "array", a |-> a, b |-> b]
LatLng(lat, lng) == [t |-> "latlng", lat |-> lat, lng |-> lng]
\* a position object { center, zoom }
Pos(c, z) == [t |-> "position", center |-> c, zoom |-> z]

\* one degree, in the model's coordinate unit
Deg == 100000

\* window.innerWidth when the document loads, and the width of the
\* container of a map in the document
WideWindow == 1000
FrameWidth == 300

\* L.Map options.fallbackZoom, from wgKartographerFallbackZoom
fallbackZoom == 13
\* maxZoom of the tile layer
maxZoom == 19

Max(a, b) == IF a >= b THEN a ELSE b
Min(a, b) == IF a <= b THEN a ELSE b


(***************************************************************************)
(* Geometry.  A GeoJSON value is a sequence of features; the empty         *)
(* sequence is the empty object of $.isEmptyObject.  A feature is a        *)
(* marker, a polygon given by the bounding boxes of its rings (outer ring  *)
(* first), or malformed: L.mapbox.featureLayer throws on it.               *)
(***************************************************************************)
Box(s, w, n, e) == [valid |-> TRUE, s |-> s, w |-> w, n |-> n, e |-> e]
\* new L.LatLngBounds(): no corner yet, isValid() is false
NoBounds == [valid |-> FALSE]
Marker(lat, lng) == [kind |-> "marker", lat |-> lat, lng |-> lng]
Polygon(rings) == [kind |-> "polygon", rings |-> rings]
Malformed == [kind |-> "malformed"]

worldLatLng == Box(-90 * Deg, -180 * Deg, 90 * Deg, 180 * Deg)

\* L.LatLngBounds.contains( bounds )
Contains(outer, b) ==
    /\ b.valid
    /\ b.s >= outer.s /\ b.n <= outer.n
    /\ b.w >= outer.w /\ b.e <= outer.e

\* an extend that an invalid argument resets
Extend_invalidResets(b, obj) ==
    IF ~obj.valid THEN obj
    ELSE IF ~b.valid THEN obj
    ELSE Box(Min(b.s, obj.s), Min(b.w, obj.w), Max(b.n, obj.n), Max(b.e, obj.e))

\* L.LatLngBounds.extend( obj ): a falsy or invalid argument changes nothing
Extend(b, obj) ==
    IF ~obj.valid THEN b
    ELSE IF ~b.valid THEN obj
    ELSE Box(Min(b.s, obj.s), Min(b.w, obj.w), Max(b.n, obj.n), Max(b.e, obj.e))

RECURSIVE BoundsOf(_, _)
\* the bounds of rings first .. Len( rings )
BoundsOf(rings, first) ==
    IF first > Len(rings) THEN NoBounds
    ELSE Extend(BoundsOf(rings, first + 1), rings[first])

\* layer.getBounds() of a polygon, layer.getLatLng() of a marker
LayerBounds(layer) ==
    IF layer.kind = "marker" THEN Box(layer.lat, layer.lng, layer.lat, layer.lng)
    ELSE BoundsOf(layer.rings, 1)

\* a validateBounds that keeps the outer ring of a geomask
validateBounds_allRings(layer) ==
    LET bounds == LayerBounds(layer) IN
    IF bounds.valid /\ Contains(worldLatLng, bounds) THEN bounds
    ELSE IF layer.kind = "polygon" /\ Len(layer.rings) >= 2
         THEN LET rings == BoundsOf(layer.rings, 1) IN
              IF Contains(worldLatLng, rings) THEN rings ELSE NoBounds
         ELSE NoBounds

\* validateBounds( layer ): the bounds, or false (NoBounds)
validateBounds(layer) ==
    LET bounds == LayerBounds(layer) IN
    IF bounds.valid /\ Contains(worldLatLng, bounds) THEN bounds
    ELSE IF layer.kind = "polygon" /\ Len(layer.rings) >= 2
         THEN \* a geomask: drop the outer ring, look at the holes
              LET holes == BoundsOf(layer.rings, 2) IN
              IF Contains(worldLatLng, holes) THEN holes ELSE NoBounds
         ELSE NoBounds

RECURSIVE FeatureBounds(_, _)
\* getValidBounds of a feature layer: the leaves from i on
FeatureBounds(geoJson, i) ==
    IF i > Len(geoJson) THEN NoBounds
    ELSE Extend(FeatureBounds(geoJson, i + 1), validateBounds(geoJson[i]))

RECURSIVE getValidBounds(_, _)
\* getValidBounds( map ): over the layers of the map, from layer i on.  The
\* tile layer and the controls have no bounds and add nothing.
getValidBounds(layers, i) ==
    IF i > Len(layers) THEN NoBounds
    ELSE Extend(getValidBounds(layers, i + 1), FeatureBounds(layers[i], 1))

\* L.mapbox.featureLayer( geoJson ) throws on a malformed feature
Renders(geoJson) == \A i \in 1 .. Len(geoJson) : geoJson[i].kind # "malformed"

\* L.Map.getBoundsZoom: the deepest zoom at which the bounds fit the size of
\* the container; a container without dimensions fits nothing (zoom 0)
getBoundsZoom(b, visible) ==
    LET span == Max(b.n - b.s, b.e - b.w) IN
    IF ~visible THEN 0
    ELSE IF span > 90 * Deg THEN 0
    ELSE IF span > 10 * Deg THEN 3
    ELSE IF span > 0 THEN 8
    ELSE maxZoom

\* L.Map.fitBounds( bounds ): center and zoom of the resulting view
fitBounds(b, visible) ==
    [center |-> LatLng((b.s + b.n) \div 2, (b.w + b.e) \div 2),
     zoom |-> getBoundsZoom(b, visible)]

\* L.LatLng.wrap(): longitude brought into [-180, 180]
wrap(c) ==
    IF c.lng >= -180 * Deg /\ c.lng <= 180 * Deg THEN c
    ELSE LatLng(c.lat, ((c.lng + 180 * Deg) % (360 * Deg)) - 180 * Deg)

(***************************************************************************)
(* Routes.  A route is a string, modelled as the sequence of its           *)
(* characters.  The route of a map is matched by the regular expression    *)
(*   /map\/([0-9]+)(?:\/([0-9]+))?                                         *)
(*       (?:\/([+-]?\d+\.?\d{0,5})?\/([+-]?\d+\.?\d{0,5})?)?/              *)
(* which is anchored at neither end.  No group of it can match the empty   *)
(* string, so a group that did not take part (undefined) is << >>.         *)
(***************************************************************************)
Digits == {"0", "1", "2", "3", "4", "5", "6", "7", "8", "9"}

DigitValue(c) ==
    CASE c = "0" -> 0 [] c = "1" -> 1 [] c = "2" -> 2 [] c = "3" -> 3
      [] c = "4" -> 4 [] c = "5" -> 5 [] c = "6" -> 6 [] c = "7" -> 7
      [] c = "8" -> 8 [] c = "9" -> 9

\* the character of str at position k, "" past its end
At(str, k) == IF k >= 1 /\ k <= Len(str) THEN str[k] ELSE ""

RECURSIVE DigitsEnd(_, _, _)
\* \d{0,most} from position k, greedy: the position after the digits
DigitsEnd(str, k, most) ==
    IF most > 0 /\ At(str, k) \in Digits THEN DigitsEnd(str, k + 1, most - 1)
    ELSE k

\* [+-]?\d+\.?\d{0,5} from position k, greedy: the position after the
\* match, 0 when there is none.  Giving back characters cannot help what
\* follows in the pattern (a "/" or nothing), so greedy is the match.
NumberEnd(str, k) ==
    LET k1 == IF At(str, k) \in {"+", "-"} THEN k + 1 ELSE k
        k2 == DigitsEnd(str, k1, Len(str))
        k3 == IF At(str, k2) = "." THEN k2 + 1 ELSE k2
    IN IF k2 = k1 THEN 0 ELSE DigitsEnd(str, k3, 5)

\* the piece of str from position a up to, not including, position b
Piece(str, a, b) == SubSeq(str, a, b - 1)

\* the match of the pattern starting at position i, where "map/" and a
\* digit were found
MatchAt(str, i) ==
    LET idEnd == DigitsEnd(str, i + 4, Len(str))
        hasZoom == At(str, idEnd) = "/" /\ At(str, idEnd + 1) \in Digits
        zoomEnd == IF hasZoom THEN DigitsEnd(str, idEnd + 1, Len(str)) ELSE idEnd
        \* (?:\/(lat)?\/(lng)?)?
        latEnd == IF At(str, zoomEnd) = "/" THEN NumberEnd(str, zoomEnd + 1) ELSE 0
        latFrom == zoomEnd + 1
        slash2 == IF latEnd = 0 THEN latFrom ELSE latEnd
        hasTail == At(str, zoomEnd) = "/" /\ At(str, slash2) = "/"
        lngEnd == IF hasTail THEN NumberEnd(str, slash2 + 1) ELSE 0
    IN [matched |-> TRUE,
        maptagId |-> Piece(str, i + 4, idEnd),
        zoom |-> IF hasZoom THEN Piece(str, idEnd + 1, zoomEnd) ELSE << >>,
        latitude |-> IF hasTail /\ latEnd # 0
                     THEN Piece(str, latFrom, latEnd) ELSE << >>,
        longitude |-> IF hasTail /\ lngEnd # 0
                      THEN Piece(str, slash2 + 1, lngEnd) ELSE << >>]

\* path.match( pattern ): the leftmost match
routeMatch(str) ==
    LET starts == {i \in 1 .. Len(str) :
                     /\ At(str, i) = "m" /\ At(str, i + 1) = "a"
                     /\ At(str, i + 2) = "p" /\ At(str, i + 3) = "/"
                     /\ At(str, i + 4) \in Digits}
    IN IF starts = {} THEN [matched |-> FALSE]
       ELSE MatchAt(str, CHOOSE i \in starts : \A j \in starts : i <= j)

RECURSIVE NatOf(_, _)
\* the number written by the digits str[ 1 .. n ]
NatOf(str, n) ==
    IF n = 0 THEN 0 ELSE 10 * NatOf(str, n - 1) + DigitValue(str[n])

\* +str for a string of digits (the zoom group)
ToInt(str) == NatOf(str, Len(str))

\* +str for a string matched by [+-]?\d+\.?\d{0,5}, in units of 1e-5
ToCoordinate(str) ==
    LET neg == str[1] = "-"
        from == IF str[1] \in {"+", "-"} THEN 2 ELSE 1
        intEnd == DigitsEnd(str, from, Len(str))
        whole == ToInt(Piece(str, from, intEnd))
        frac == IF intEnd > Len(str) THEN << >>
                ELSE SubSeq(str, intEnd + 1, Len(str))
        scaled == ToInt(frac \o [k \in 1 .. (5 - Len(frac)) |-> "0"])
        value == whole * Deg + scaled
    IN IF neg THEN 0 - value ELSE value

\* the array index a property key names, -1 when it names none: an array
\* index is spelled without leading zeros
ArrayIndex(key) ==
    IF key = << "0" >> \/ key[1] # "0" THEN ToInt(key) ELSE 0 - 1

\* a lookup that reads the key as a number first
RegistryLookup_parsed(registry, key) ==
    IF ToInt(key) < Len(registry) THEN registry[ToInt(key) + 1] ELSE None

\* maps[ maptagId ] for the matched string maptagId: the object, or None
RegistryLookup(registry, key) ==
    LET i == ArrayIndex(key) IN
    IF i >= 0 /\ i < Len(registry) THEN registry[i + 1] ELSE None

\* the route "map/" followed by the characters tail
MapRoute(tail) == << "m", "a", "p", "/" >> \o tail

\* the routes the document's address takes in the model
Routes ==
    { << >>,                                            \* ''
      MapRoute(<< "0" >>),                              \* map/0
      MapRoute(<< "1" >>),                              \* map/1
      MapRoute(<< "0", "1" >>),                         \* map/01
      MapRoute(<< "0", "/", "5" >>),                    \* map/0/5
      MapRoute(<< "0", "/", "5", "/", "1", ".", "5", "/", "-", "2" >>),
                                                        \* map/0/5/1.5/-2
      MapRoute(<< "0", "/", "-", "3", "/", "4" >>) }    \* map/0/-3/4

(***************************************************************************)
(* State.                                                                  *)
(***************************************************************************)
VARIABLES
    \* mapframe.js
    maps,               \* the registry: maps[ i ] is at position i + 1
    routerInited,
    rafQueue,           \* callbacks handed to requestAnimationFrame, in order
    hash,               \* the route of the document's address
    firings,            \* wikipage.content firings so far
    \* KartographerMap objects, by identity
    nextId,             \* the next object to be constructed
    options,            \* the options the object was constructed with
    closure,            \* options.center and options.zoom, which initialize
                        \* keeps for its function ready() until that has run
    alive,              \* L.Map.prototype.remove has not run on the object
    visible,            \* $container.is( ':visible' )
    kartographer_ready,
    listeners,          \* 'kartographerisready' listeners added by doWhenReady
    fullScreenMap,
    dataLayers,
    mapLayers,          \* the feature layers added to the Leaflet map
    initialPosition,    \* _initialPosition
    view,               \* the center and zoom of the Leaflet map
    updatingHash,       \* _updatingHash
    dragging,           \* dragging and touchZoom enabled
    groupLoad,          \* the promise of addDataGroups
    inlineLoad,         \* the promise of addDataLayer
    inlineDataLayerId,
    static,             \* _static: "undefined", "TRUE" or "FALSE"
    staticTimer,        \* _staticTimer is running
    pendingTimers,      \* timeouts of invalidateSize that have yet to run
    sleep,              \* the Leaflet.Sleep handler: "none", "added",
                        \* "enabled" or "disabled"
    scrollWheelZoom,    \* the scrollWheelZoom handler is enabled
    staticClass,        \* the container has class mw-kartographer-static
    size,               \* getSize().x
    \* the window
    windowWidth,        \* window.innerWidth
    resizes,            \* resize events so far
    \* ext.kartographer.dialog
    usingQueue,         \* maps whose mw.loader.using callback has yet to run
    dialogLoaded,
    dialogMap,          \* the map the dialog shows
    \* what happened, for the properties
    readyFired,         \* 'kartographerisready' events fired on the object
    lastRemoved,        \* the objects L.Map.prototype.remove ran on during the
                        \* last remove(), in that order
    loaderCalls,        \* << object, "groups" | "inline" >> calls of the loader
    setViewCalled,      \* objects on which setView has run
    lastDispatch,       \* what the last run of the route handler did
    boundHistory,       \* per registry index, the objects ever bound to it
    probes,             \* doWhenReady calls made from outside the class
    probeCalls,         \* how often each of their callbacks ran
    evaluations,        \* runs of toggleStaticState on the object
    transitions,        \* runs of toggleStaticState that went past its skip
    loaded,             \* the groups loadGroups resolved with, per object
    added,              \* the calls of addGeoJSONLayer made from outside the
                        \* class, in order
    viewCalls,          \* the calls of setView made from outside the class,
                        \* in order
    hashes,             \* what the calls of getHash returned, in order
    containerData,      \* the zoom, longitude and latitude data of the
                        \* container, as setView writes them
    skipped,            \* the maps an openFullScreen found with _updatingHash
    requested,          \* options.center and options.zoom as the object
                        \* was constructed with them
    firingOf            \* the firing of the content hook whose deferred
                        \* callback constructed the object (0: none)

vars == << maps, routerInited, rafQueue, hash, firings, nextId, options, closure, alive,
           visible, kartographer_ready, listeners, fullScreenMap, dataLayers,
           mapLayers, initialPosition, view, updatingHash, dragging, groupLoad,
           inlineLoad, inlineDataLayerId, usingQueue, dialogLoaded, dialogMap,
           readyFired, lastRemoved, loaderCalls, setViewCalled, lastDispatch,
           boundHistory, probes, probeCalls, static, staticTimer, pendingTimers, sleep,
           scrollWheelZoom, staticClass, size, windowWidth, resizes,
           evaluations, transitions, loaded, added, viewCalls, hashes,
           containerData, skipped, requested, firingOf >>

\* the current state as a record; overflow is raised by a handler that
\* needs more objects than the model has
St ==
    [maps |-> maps, routerInited |-> routerInited, rafQueue |-> rafQueue,
     hash |-> hash, firings |-> firings, nextId |-> nextId,
     options |-> options, closure |-> closure, alive |-> alive, visible |-> visible,
     kartographer_ready |-> kartographer_ready, listeners |-> listeners,
     fullScreenMap |-> fullScreenMap, dataLayers |-> dataLayers,
     mapLayers |-> mapLayers, initialPosition |-> initialPosition,
     view |-> view, updatingHash |-> updatingHash, dragging |-> dragging,
     groupLoad |-> groupLoad, inlineLoad |-> inlineLoad,
     inlineDataLayerId |-> inlineDataLayerId, usingQueue |-> usingQueue,
     dialogLoaded |-> dialogLoaded, dialogMap |-> dialogMap,
     readyFired |-> readyFired, lastRemoved |-> lastRemoved,
     loaderCalls |-> loaderCalls, setViewCalled |-> setViewCalled,
     lastDispatch |-> lastDispatch, boundHistory |-> boundHistory,
     probes |-> probes, probeCalls |-> probeCalls,
     static |-> static, staticTimer |-> staticTimer,
     pendingTimers |-> pendingTimers, sleep |-> sleep,
     scrollWheelZoom |-> scrollWheelZoom, staticClass |-> staticClass,
     size |-> size, windowWidth |-> windowWidth, resizes |-> resizes,
     evaluations |-> evaluations, transitions |-> transitions,
     loaded |-> loaded, added |-> added, viewCalls |-> viewCalls,
     hashes |-> hashes, containerData |-> containerData,
     skipped |-> skipped, requested |-> requested, firingOf |-> firingOf,
     overflow |-> FALSE]

\* the next state is s, which stays within the bounds
Becomes(s) ==
    /\ ~s.overflow
    /\ Len(s.usingQueue) <= MaxPending
    /\ \A m \in Ids : Len(s.listeners[m]) <= MaxPending
    /\ maps' = s.maps /\ routerInited' = s.routerInited
    /\ rafQueue' = s.rafQueue /\ hash' = s.hash /\ firings' = s.firings
    /\ nextId' = s.nextId /\ options' = s.options /\ alive' = s.alive
    /\ closure' = s.closure
    /\ visible' = s.visible
    /\ kartographer_ready' = s.kartographer_ready
    /\ listeners' = s.listeners /\ fullScreenMap' = s.fullScreenMap
    /\ dataLayers' = s.dataLayers /\ mapLayers' = s.mapLayers
    /\ initialPosition' = s.initialPosition /\ view' = s.view
    /\ updatingHash' = s.updatingHash /\ dragging' = s.dragging
    /\ groupLoad' = s.groupLoad /\ inlineLoad' = s.inlineLoad
    /\ inlineDataLayerId' = s.inlineDataLayerId
    /\ usingQueue' = s.usingQueue /\ dialogLoaded' = s.dialogLoaded
    /\ dialogMap' = s.dialogMap /\ readyFired' = s.readyFired
    /\ lastRemoved' = s.lastRemoved /\ loaderCalls' = s.loaderCalls
    /\ setViewCalled' = s.setViewCalled /\ lastDispatch' = s.lastDispatch
    /\ boundHistory' = s.boundHistory /\ probes' = s.probes
    /\ probeCalls' = s.probeCalls
    /\ static' = s.static /\ staticTimer' = s.staticTimer
    /\ pendingTimers' = s.pendingTimers
    /\ sleep' = s.sleep /\ scrollWheelZoom' = s.scrollWheelZoom
    /\ staticClass' = s.staticClass /\ size' = s.size
    /\ windowWidth' = s.windowWidth /\ resizes' = s.resizes
    /\ evaluations' = s.evaluations /\ transitions' = s.transitions
    /\ loaded' = s.loaded /\ added' = s.added /\ viewCalls' = s.viewCalls
    /\ hashes' = s.hashes /\ containerData' = s.containerData
    /\ skipped' = s.skipped /\ requested' = s.requested
    /\ firingOf' = s.firingOf

(***************************************************************************)
(* KartographerMap: the methods, each a function of the state.             *)
(***************************************************************************)
\* the head of initView and of setView: an array with a NaN entry is no
\* center; a valid array becomes an L.LatLng; anything else is kept
NormalizeCenter(center) ==
    IF center.t = "array"
    THEN IF ~isNaN(center.a) /\ ~isNaN(center.b)
         THEN LatLng(center.a.v, center.b.v) ELSE Undefined
    ELSE center

\* L.Map._limitZoom
limitZoom(z) == Max(0, Min(maxZoom, z))

\* $container.closest( '.mw-kartographer-interactive' ).data( { ... } ):
\* every container has that class, and this.fullscreen is never set
saveData(s, m, center, zoom) ==
    [s EXCEPT !.containerData[m] =
                  [zoom |-> zoom, longitude |-> center.lng, latitude |-> center.lat]]

RECURSIVE initView(_, _, _, _, _)
RECURSIVE setView(_, _, _, _, _)

initView(s, m, center, zoom, doSetView) ==
    LET c == NormalizeCenter(center)
        z == IF isNaN(zoom) THEN Undefined ELSE zoom
        s1 == [s EXCEPT !.initialPosition[m] = Pos(c, z)]
    IN IF doSetView THEN setView(s1, m, c, z, TRUE) ELSE s1

\* a setView whose fitted zoom goes one past the initial zoom
setView_zoomStacks(s, m, center, zoom, save) ==
    LET initial == s.initialPosition[m]
        c == NormalizeCenter(center)
        s0 == [s EXCEPT !.setViewCalled = @ \cup {m}]
    IN IF c # Undefined
       THEN LET z == IF isNaN(zoom) THEN fallbackZoom ELSE zoom.v
            IN [s0 EXCEPT !.view[m] = [center |-> c, zoom |-> limitZoom(z)]]
       ELSE LET maxBounds == getValidBounds(s.mapLayers[m], 1)
                fit == IF maxBounds.valid
                       THEN fitBounds(maxBounds, s.visible[m])
                       ELSE fitBounds(worldLatLng, s.visible[m])
                z == IF initial # Undefined /\ ~isNaN(initial.zoom)
                     THEN limitZoom(initial.zoom.v + 1) ELSE fit.zoom
                s1 == [s0 EXCEPT !.view[m] = [center |-> fit.center, zoom |-> z]]
            IN IF s.visible[m] /\ save
               THEN initView(saveData(s1, m, fit.center, z), m, fit.center, Num(z), FALSE)
               ELSE s1

\* a setView that saves the fitted view of a container that is not visible
setView_savesUnseen(s, m, center, zoom, save) ==
    LET initial == s.initialPosition[m]
        c == NormalizeCenter(center)
        s0 == [s EXCEPT !.setViewCalled = @ \cup {m}]
    IN IF c # Undefined
       THEN LET z == IF isNaN(zoom) THEN fallbackZoom ELSE zoom.v
            IN [s0 EXCEPT !.view[m] = [center |-> c, zoom |-> limitZoom(z)]]
       ELSE LET maxBounds == getValidBounds(s.mapLayers[m], 1)
                fit == IF maxBounds.valid
                       THEN fitBounds(maxBounds, s.visible[m])
                       ELSE fitBounds(worldLatLng, s.visible[m])
                z == IF initial # Undefined /\ ~isNaN(initial.zoom)
                     THEN limitZoom(initial.zoom.v) ELSE fit.zoom
                s1 == [s0 EXCEPT !.view[m] = [center |-> fit.center, zoom |-> z]]
            IN IF save
               THEN initView(saveData(s1, m, fit.center, z), m, fit.center, Num(z), FALSE)
               ELSE s1

\* a setView without fallback zoom
setView_noFallback(s, m, center, zoom, save) ==
    LET initial == s.initialPosition[m]
        c == NormalizeCenter(center)
        s0 == [s EXCEPT !.setViewCalled = @ \cup {m}]
    IN IF c # Undefined
       THEN LET z == IF isNaN(zoom) THEN 0 ELSE zoom.v
            IN [s0 EXCEPT !.view[m] = [center |-> c, zoom |-> limitZoom(z)]]
       ELSE LET maxBounds == getValidBounds(s.mapLayers[m], 1)
                fit == IF maxBounds.valid
                       THEN fitBounds(maxBounds, s.visible[m])
                       ELSE fitBounds(worldLatLng, s.visible[m])
                z == IF initial # Undefined /\ ~isNaN(initial.zoom)
                     THEN limitZoom(initial.zoom.v) ELSE fit.zoom
                s1 == [s0 EXCEPT !.view[m] = [center |-> fit.center, zoom |-> z]]
            IN IF s.visible[m] /\ save
               THEN initView(saveData(s1, m, fit.center, z), m, fit.center, Num(z), FALSE)
               ELSE s1

setView(s, m, center, zoom, save) ==
    LET initial == s.initialPosition[m]
        c == NormalizeCenter(center)
        s0 == [s EXCEPT !.setViewCalled = @ \cup {m}]
    IN IF c # Undefined
       THEN LET z == IF isNaN(zoom) THEN fallbackZoom ELSE zoom.v
            IN [s0 EXCEPT !.view[m] = [center |-> c, zoom |-> limitZoom(z)]]
       ELSE LET maxBounds == getValidBounds(s.mapLayers[m], 1)
                fit == IF maxBounds.valid
                       THEN fitBounds(maxBounds, s.visible[m])
                       ELSE fitBounds(worldLatLng, s.visible[m])
                z == IF initial # Undefined /\ ~isNaN(initial.zoom)
                     THEN limitZoom(initial.zoom.v) ELSE fit.zoom
                s1 == [s0 EXCEPT !.view[m] = [center |-> fit.center, zoom |-> z]]
            IN IF s.visible[m] /\ save
               THEN initView(saveData(s1, m, fit.center, z), m, fit.center, Num(z), FALSE)
               ELSE s1

\* getMapPosition(): the current center, wrapped, and zoom
getMapPosition(s, m) == Pos(wrap(s.view[m].center), Num(s.view[m].zoom))

\* decimal places of a coordinate in a route, by zoom (from zoom 0 on)
precisionPerZoom == << 0, 0, 1, 2, 2, 3, 3, 3, 3, 4, 4, 4, 4, 4, 4, 4, 4, 5, 5 >>

RECURSIVE Pow10(_)
Pow10(n) == IF n = 0 THEN 1 ELSE 10 * Pow10(n - 1)

\* Number.prototype.toFixed( digits ) of a coordinate (in units of 1/Deg):
\* the sign, then the magnitude rounded to that many decimal places, a
\* half rounded up; digits undefined (None) is 0
toFixed(x, digits) ==
    LET magnitude == IF x < 0 THEN 0 - x ELSE x
        unit == Pow10(5 - digits)
    IN [neg |-> x < 0, n |-> (magnitude + unit \div 2) \div unit, digits |-> digits]

\* getScaleLatLng( lat, lng, zoom ): precisionPerZoom[ zoom ] is undefined
\* past the end of the array, and toFixed( undefined ) is toFixed( 0 )
getScaleLatLng(s, m, lat, lng, zoom) ==
    LET z == IF zoom = Undefined THEN s.view[m].zoom ELSE zoom.v
        digits == IF z + 1 <= Len(precisionPerZoom) THEN precisionPerZoom[z + 1] ELSE 0
    IN << toFixed(lat, digits), toFixed(lng, digits) >>

\* getHash(): the route, and the suffix appended to it (<< >> for none).
\* The string zoom + '/' + lat + '/' + lng is the tuple of its three parts;
\* initialHash is undefined when the initial position has no center, and
\* no string equals that.
getHash(s, m) ==
    IF s.initialPosition[m] = Undefined
    THEN [route |-> s.options[m].fullScreenRoute, suffix |-> << >>]
    ELSE LET currentPosition == getMapPosition(s, m)
             initial == s.initialPosition[m]
             newHash == << currentPosition.zoom >>
                            \o getScaleLatLng(s, m, currentPosition.center.lat,
                                              currentPosition.center.lng,
                                              currentPosition.zoom)
         IN IF initial.center = Undefined
               \/ newHash # << initial.zoom >>
                                \o getScaleLatLng(s, m, initial.center.lat,
                                                  initial.center.lng,
                                                  initial.zoom)
            THEN [route |-> s.options[m].fullScreenRoute, suffix |-> newHash]
            ELSE [route |-> s.options[m].fullScreenRoute, suffix |-> << >>]

\* an addGeoJSONLayer that registers the group before it renders the layer
addGeoJSONLayer_registersFirst(s, m, groupId, geoJson) ==
    IF Renders(geoJson)
    THEN [s EXCEPT !.mapLayers[m] = Append(@, geoJson),
                   !.dataLayers[m] = (groupId :> geoJson) @@ @]
    ELSE [s EXCEPT !.dataLayers[m] = (groupId :> geoJson) @@ @]

\* addGeoJSONLayer( groupId, geoJson, options ): a layer that fails to
\* render is logged and left out
addGeoJSONLayer(s, m, groupId, geoJson) ==
    IF Renders(geoJson)
    THEN [s EXCEPT !.mapLayers[m] = Append(@, geoJson),
                   !.dataLayers[m] = (groupId :> geoJson) @@ @]
    ELSE s

RECURSIVE addGroups_untilFailure(_, _, _, _)
\* a loop over the loaded groups that the first group without a layer ends
addGroups_untilFailure(s, m, groups, i) ==
    IF i > Len(groups) THEN s
    ELSE IF groups[i].geoJson = << >> \/ ~Renders(groups[i].geoJson) THEN s
    ELSE addGroups_untilFailure(
             [s EXCEPT !.mapLayers[m] = Append(@, groups[i].geoJson),
                       !.dataLayers[m] = (groups[i].id :> groups[i].geoJson) @@ @],
             m, groups, i + 1)

RECURSIVE addGroups(_, _, _, _)
\* the $.each of addDataGroups' callback over the loaded groups, from i on
addGroups(s, m, groups, i) ==
    IF i > Len(groups) THEN s
    ELSE addGroups(IF groups[i].geoJson # << >>
                   THEN addGeoJSONLayer(s, m, groups[i].id, groups[i].geoJson)
                   ELSE s,
                   m, groups, i + 1)

inlineDataLayerKey == "kartographer-inline-data-layer"

RECURSIVE addInlineGroups(_, _, _, _)
\* the $.each of addDataLayer's callback: every group takes a fresh id
addInlineGroups(s, m, groups, i) ==
    IF i > Len(groups) THEN s
    ELSE LET groupId == inlineDataLayerKey \o ToString(s.inlineDataLayerId)
             s1 == [s EXCEPT !.inlineDataLayerId = @ + 1]
         IN addInlineGroups(IF groups[i] # << >>
                            THEN addGeoJSONLayer(s1, m, groupId, groups[i])
                            ELSE s1,
                            m, groups, i + 1)

\* a constructor that copies no layer of the parent
copyLayers_nothing(s, m, parent, todo) == s

RECURSIVE copyLayers(_, _, _, _)
\* the $.each of initialize over the parent's dataLayers
copyLayers(s, m, parent, todo) ==
    IF todo = {} THEN s
    ELSE LET groupId == CHOOSE g \in todo : TRUE IN
         copyLayers(addGeoJSONLayer(s, m, groupId, s.dataLayers[parent][groupId]),
                    m, parent, todo \ {groupId})

\* ext.kartographer.dialog render( map ): the dialog shows the map
dialogRender(s, m) ==
    [s EXCEPT !.dialogMap = m, !.visible[m] = TRUE]

\* ext.kartographer.dialog close()
dialogClose(s) == [s EXCEPT !.dialogMap = None]

\* L.Map.prototype.remove
LMapRemove(s, m) ==
    [s EXCEPT !.alive[m] = FALSE, !.lastRemoved = Append(@, m)]

RECURSIVE doWhenReady(_, _, _)
RECURSIVE runCallback(_, _, _)
RECURSIVE runListeners(_, _, _, _)
RECURSIVE fireReady(_, _)
RECURSIVE ready(_, _)
RECURSIVE initialize(_, _)
RECURSIVE openFullScreenBody(_, _, _)

\* a doWhenReady that adds the listener whether the map is ready or not
doWhenReady_queueOnly(s, m, callback) ==
    [s EXCEPT !.listeners[m] = Append(@, callback)]

doWhenReady(s, m, callback) ==
    IF s.kartographer_ready[m] THEN runCallback(s, m, callback)
    ELSE [s EXCEPT !.listeners[m] = Append(@, callback)]

\* the callbacks the source passes to doWhenReady
runCallback(s, m, callback) ==
    CASE callback.k = "open" -> openFullScreenBody(s, m, callback.position)
      [] callback.k = "setView" ->
            setView(s, callback.map, callback.position.center,
                    callback.position.zoom, FALSE)
      [] callback.k = "render" -> dialogRender(s, callback.map)
      [] callback.k = "probe" ->
            [s EXCEPT !.probeCalls[callback.id] = @ + 1]

runListeners(s, m, ls, i) ==
    IF i > Len(ls) \/ s.overflow THEN s
    ELSE runListeners(runCallback(s, m, ls[i]), m, ls, i + 1)

\* a fire whose first listener leaves the flag alone
fireReady_noFlag(s, m) ==
    runListeners([s EXCEPT !.readyFired[m] = @ + 1], m, s.listeners[m], 1)

\* map.fire( 'kartographerisready' ): the listener of initialize sets the
\* flag, then the listeners of doWhenReady run in the order they were added
fireReady(s, m) ==
    runListeners([s EXCEPT !.kartographer_ready[m] = TRUE,
                           !.readyFired[m] = @ + 1],
                 m, s.listeners[m], 1)

\* a ready() that fires the event without placing the view
ready_unplaced(s, m) ==
    fireReady([s EXCEPT !.dragging[m] = TRUE, !.closure[m] = Undefined], m)

\* the function ready() of initialize
ready(s, m) ==
    LET s1 == initView(s, m, s.closure[m].center, s.closure[m].zoom, TRUE)
    IN fireReady([s1 EXCEPT !.dragging[m] = TRUE, !.closure[m] = Undefined], m)

\* a toggleStaticState that looks at the margin only
toggleStaticState_marginOnly(s, m) ==
    LET staticMap == (s.size[m] + 200) > s.windowWidth
        evaluated == [s EXCEPT !.evaluations[m] = @ + 1]
    IN IF s.static[m] = ToString(staticMap) THEN evaluated
       ELSE [evaluated EXCEPT
               !.static[m] = ToString(staticMap),
               !.sleep[m] = IF staticMap THEN "disabled" ELSE "enabled",
               !.scrollWheelZoom[m] = IF staticMap THEN FALSE ELSE @,
               !.staticClass[m] = staticMap,
               !.transitions[m] = @ + 1]

\* a toggleStaticState that does not skip
toggleStaticState_noSkip(s, m) ==
    LET staticMap == s.windowWidth <= 480 \/ (s.size[m] + 200) > s.windowWidth
    IN [s EXCEPT !.evaluations[m] = @ + 1,
                 !.static[m] = ToString(staticMap),
                 !.sleep[m] = IF staticMap THEN "disabled" ELSE "enabled",
                 !.scrollWheelZoom[m] = IF staticMap THEN FALSE ELSE @,
                 !.staticClass[m] = staticMap,
                 !.transitions[m] = @ + 1]

\* toggleStaticState()
toggleStaticState(s, m) ==
    LET deviceWidth == s.windowWidth
        isSmallWindow == deviceWidth <= 480
        staticMap == isSmallWindow \/ (s.size[m] + 200) > deviceWidth
        evaluated == [s EXCEPT !.evaluations[m] = @ + 1]
    IN IF s.static[m] = ToString(staticMap) THEN evaluated
       ELSE [evaluated EXCEPT
               !.static[m] = ToString(staticMap),
               !.sleep[m] = IF staticMap THEN "disabled" ELSE "enabled",
               !.scrollWheelZoom[m] = IF staticMap THEN FALSE ELSE @,
               !.staticClass[m] = staticMap,
               !.transitions[m] = @ + 1]

\* _invalidateInteractive(): the sleep handler, the invalidateSize of the
\* object, and the first toggleStaticState
invalidateInteractive(s, m) ==
    toggleStaticState([s EXCEPT !.sleep[m] = "added"], m)

\* an invalidateSize that starts the timer on every map
invalidateSize_everyMap(s, m, width) ==
    [s EXCEPT !.size[m] = width, !.staticTimer[m] = TRUE,
              !.pendingTimers[m] = IF s.staticTimer[m] THEN @ ELSE @ + 1]

\* an invalidateSize that starts a timer and leaves the one before running
invalidateSize_noClear(s, m, width) ==
    IF s.sleep[m] = "none" \/ s.options[m].fullscreen
    THEN [s EXCEPT !.size[m] = width]
    ELSE [s EXCEPT !.size[m] = width, !.staticTimer[m] = TRUE,
                   !.pendingTimers[m] = @ + 1]

\* map.invalidateSize(), as the object has it: the one _invalidateInteractive
\* gave it, or that of L.Map; width is what the container measures now.
\* clearTimeout takes the timeout of _staticTimer away when it has yet to
\* run, setTimeout adds one
invalidateSize(s, m, width) ==
    IF s.sleep[m] = "none" \/ s.options[m].fullscreen
    THEN [s EXCEPT !.size[m] = width]
    ELSE [s EXCEPT !.size[m] = width, !.staticTimer[m] = TRUE,
                   !.pendingTimers[m] = IF s.staticTimer[m] THEN @ ELSE @ + 1]

\* an invalidateSizeAndSetInitialView that fits the view again whatever
\* the initial center is
invalidateSizeAndSetInitialView_fits(s, m, width) ==
    LET position == s.initialPosition[m]
        s1 == invalidateSize(s, m, width)
    IN IF position # Undefined
       THEN initView(s1, m, Undefined, position.zoom, TRUE)
       ELSE s1

\* invalidateSizeAndSetInitialView()
invalidateSizeAndSetInitialView(s, m, width) ==
    LET position == s.initialPosition[m]
        s1 == invalidateSize(s, m, width)
    IN IF position # Undefined
       THEN initView(s1, m, position.center, position.zoom, TRUE)
       ELSE s1

\* addDataGroups( dataGroups ) up to the promise it returns
addDataGroups(s, m) ==
    IF s.options[m].dataGroups = << >>
    THEN [s EXCEPT !.groupLoad[m] = "nothing"]
    ELSE [s EXCEPT !.groupLoad[m] = "pending",
                   !.loaderCalls = @ \cup {<< m, "groups" >>}]

\* the end of initialize: the layers and ready(), with a parent map from
\* its layers and at once, otherwise from the loader and later
load(s, m) ==
    IF s.options[m].parentMap # None
    THEN ready(copyLayers(s, m, s.options[m].parentMap,
                          DOMAIN s.dataLayers[s.options[m].parentMap]), m)
    ELSE addDataGroups(s, m)

\* new KartographerMap( o ): the object is s.nextId
initialize(s, o) ==
    LET m == s.nextId
        s1 == [s EXCEPT !.nextId = m + 1, !.alive[m] = TRUE,
                        !.options[m] = [f \in DOMAIN o \ {"center", "zoom"} |-> o[f]],
                        !.closure[m] = Pos(o.center, o.zoom),
                        !.requested[m] = Pos(o.center, o.zoom),
                        !.visible[m] = o.container.visible,
                        !.size[m] = o.container.width,
                        !.scrollWheelZoom[m] = TRUE,
                        !.dragging[m] = FALSE]
    IN IF m > MaxInstances THEN [s EXCEPT !.overflow = TRUE]
       ELSE load(IF ~o.fullscreen /\ ~o.alwaysInteractive
                 THEN invalidateInteractive(s1, m) ELSE s1,
                 m)

\* position = position || this.getMapPosition()
OrCurrent(s, m, position) ==
    IF position # Undefined THEN position ELSE getMapPosition(s, m)

\* the options openFullScreen constructs the full screen map with
ChildOptions(s, m, position) ==
    [container |-> [content |-> 0 - 1, element |-> s.nextId, visible |-> FALSE,
                    width |-> s.windowWidth],
     center |-> OrCurrent(s, m, position).center,
     zoom |-> OrCurrent(s, m, position).zoom,
     dataGroups |-> << >>, data |-> FALSE, link |-> FALSE,
     fullscreen |-> TRUE, alwaysInteractive |-> FALSE,
     fullScreenRoute |-> s.options[m].fullScreenRoute,
     parentMap |-> m, parentLink |-> None]

\* mw.loader.using( 'ext.kartographer.dialog' ).then( ... ) for map
using(s, map) == [s EXCEPT !.usingQueue = Append(@, map)]

\* an adopt whose initView also moves the view of the new map
adopt_resetMoves(s, m, c) ==
    IF s.overflow THEN s
    ELSE using(initView([s EXCEPT !.fullScreenMap[m] = c], c,
                        s.initialPosition[m].center,
                        s.initialPosition[m].zoom, TRUE),
               c)

\* this.fullScreenMap = the map c just constructed, in the state s the
\* constructor has left, and the rest of the callback for it
adopt(s, m, c) ==
    IF s.overflow THEN s
    ELSE using(initView([s EXCEPT !.fullScreenMap[m] = c], c,
                        s.initialPosition[m].center,
                        s.initialPosition[m].zoom, FALSE),
               c)

\* a callback that constructs a full screen map on every call
openFullScreenBody_newChild(s, m, position) ==
    adopt(initialize(s, ChildOptions(s, m, position)), m, s.nextId)

\* a callback that takes the stored full screen map whatever options.link is
openFullScreenBody_linkIgnored(s, m, position) ==
    LET map == s.fullScreenMap[m]
    IN IF map = None
       THEN adopt(initialize(s, ChildOptions(s, m, position)), m, s.nextId)
       ELSE IF s.updatingHash[map]
       THEN [s EXCEPT !.updatingHash[map] = FALSE, !.skipped = @ \cup {map}]
       ELSE using(doWhenReady(s, m, [k |-> "setView", map |-> map,
                                     position |-> OrCurrent(s, m, position)]),
                  map)

\* a callback that clears _updatingHash and goes on to the dialog
openFullScreenBody_noReturn(s, m, position) ==
    LET map == IF s.options[m].link THEN m ELSE s.fullScreenMap[m]
    IN IF map = None
       THEN adopt(initialize(s, ChildOptions(s, m, position)), m, s.nextId)
       ELSE IF s.updatingHash[map]
       THEN using([s EXCEPT !.updatingHash[map] = FALSE, !.skipped = @ \cup {map}],
                  map)
       ELSE using(doWhenReady(s, m, [k |-> "setView", map |-> map,
                                     position |-> OrCurrent(s, m, position)]),
                  map)

\* the callback openFullScreen passes to doWhenReady, with this = m
openFullScreenBody(s, m, position) ==
    LET map == IF s.options[m].link THEN m ELSE s.fullScreenMap[m]
    IN IF map = None
       THEN adopt(initialize(s, ChildOptions(s, m, position)), m, s.nextId)
       ELSE IF s.updatingHash[map]
       THEN [s EXCEPT !.updatingHash[map] = FALSE, !.skipped = @ \cup {map}]
       ELSE using(doWhenReady(s, m, [k |-> "setView", map |-> map,
                                     position |-> OrCurrent(s, m, position)]),
                  map)

openFullScreen(s, m, position) ==
    doWhenReady(s, m, [k |-> "open", position |-> position])

closeFullScreen(s, m) == dialogClose(s)

\* a remove that leaves the parent's reference to the map in place
remove_keepParentRef(s, m) ==
    LMapRemove(IF s.fullScreenMap[m] # None
               THEN [LMapRemove(s, s.fullScreenMap[m])
                        EXCEPT !.fullScreenMap[m] = None]
               ELSE s, m)

remove(s, m) ==
    LET parent == IF s.options[m].parentMap # None
                  THEN s.options[m].parentMap ELSE s.options[m].parentLink
        s1 == IF s.fullScreenMap[m] # None
              THEN [LMapRemove(s, s.fullScreenMap[m])
                       EXCEPT !.fullScreenMap[m] = None]
              ELSE s
        s2 == IF parent # None THEN [s1 EXCEPT !.fullScreenMap[parent] = None]
              ELSE s1
    IN LMapRemove(s2, m)

\* map.remove() called by code outside the class
removeCall(s, m) == remove([s EXCEPT !.lastRemoved = << >>], m)

(***************************************************************************)
(* mapframe.js: the registry and the route.                                *)
(***************************************************************************)
RECURSIVE FormatNat(_)
\* '' + n for a number n >= 0
FormatNat(n) ==
    LET d == << "0", "1", "2", "3", "4", "5", "6", "7", "8", "9" >>[(n % 10) + 1]
    IN IF n < 10 THEN << d >> ELSE FormatNat(n \div 10) \o << d >>

\* maps[ index ] = map, in the state s the constructor has left
register(s, index, map) ==
    IF s.overflow THEN s
    ELSE [s EXCEPT
            !.maps = Append(@, map),
            !.boundHistory =
               IF index + 1 <= Len(@)
               THEN [@ EXCEPT ![index + 1] = @ \cup {map}]
               ELSE Append(@, {map})]

\* initMapBox( data, $container )
initMapBox(s, data, container) ==
    register(initialize(s,
                [container |-> container,
                 center |-> Arr(data.latitude, data.longitude),
                 zoom |-> data.zoom,
                 dataGroups |-> data.overlays, data |-> FALSE, link |-> FALSE,
                 fullscreen |-> FALSE, alwaysInteractive |-> FALSE,
                 fullScreenRoute |-> << "/" >> \o MapRoute(FormatNat(Len(s.maps))),
                 parentMap |-> None, parentLink |-> None]),
             Len(s.maps), s.nextId)

\* a hook handler that leaves the registry as it is
popAll_nothing(s) == s

RECURSIVE popAll(_)
\* while ( maps.length ) { maps.pop().remove(); }
popAll(s) ==
    IF s.maps = << >> THEN s
    ELSE popAll(removeCall([s EXCEPT !.maps = SubSeq(@, 1, Len(@) - 1)],
                       s.maps[Len(s.maps)]))

\* the handler of the wikipage.content hook, fired with $content = content
wikipageContent(s, content) ==
    [popAll(s) EXCEPT !.rafQueue = Append(@, content), !.firings = @ + 1]

\* a handler that takes the zoom of the route whenever the route has one
routeHandler_partial(s, route, g) ==
    LET map == RegistryLookup(s.maps, g.maptagId)
        initial == s.initialPosition[map]
        position ==
            IF g.zoom # << >>
            THEN Pos(IF g.latitude # << >> /\ g.longitude # << >>
                     THEN Arr(Num(ToCoordinate(g.latitude)),
                              Num(ToCoordinate(g.longitude)))
                     ELSE IF initial = Undefined THEN Undefined ELSE initial.center,
                     Num(ToInt(g.zoom)))
            ELSE initial
    IN IF map = None
       THEN [s EXCEPT !.hash = << >>,
                      !.lastDispatch = [route |-> route, matched |-> TRUE,
                                        groups |-> g, navigated |-> TRUE,
                                        opened |-> None,
                                        position |-> Undefined]]
       ELSE [openFullScreen(s, map, position) EXCEPT
                      !.lastDispatch = [route |-> route, matched |-> TRUE,
                                        groups |-> g, navigated |-> FALSE,
                                        opened |-> map,
                                        position |-> position]]

\* the handler of the route, called with the groups of the match
routeHandler(s, route, g) ==
    LET map == RegistryLookup(s.maps, g.maptagId)
        position ==
            IF g.zoom # << >> /\ g.latitude # << >> /\ g.longitude # << >>
            THEN Pos(Arr(Num(ToCoordinate(g.latitude)),
                         Num(ToCoordinate(g.longitude))),
                     Num(ToInt(g.zoom)))
            ELSE s.initialPosition[map]
    IN IF map = None
       THEN \* router.navigate( '' )
            [s EXCEPT !.hash = << >>,
                      !.lastDispatch = [route |-> route, matched |-> TRUE,
                                        groups |-> g, navigated |-> TRUE,
                                        opened |-> None,
                                        position |-> Undefined]]
       ELSE [openFullScreen(s, map, position) EXCEPT
                      !.lastDispatch = [route |-> route, matched |-> TRUE,
                                        groups |-> g, navigated |-> FALSE,
                                        opened |-> map,
                                        position |-> position]]

\* the router with the one route of this module: the handler runs when the
\* path matches the pattern
dispatch(s, route) ==
    LET g == routeMatch(route) IN
    IF g.matched THEN routeHandler(s, route, g) ELSE s

RECURSIVE initFrames(_, _, _, _)
\* the .each of the deferred callback over the map elements of $content
initFrames(s, content, datas, k) ==
    IF k > Len(datas) \/ s.overflow THEN s
    ELSE initFrames(initMapBox(s, datas[k].data,
                               [content |-> content, element |-> k,
                                visible |-> datas[k].visible,
                                width |-> FrameWidth]),
                    content, datas, k + 1)

\* the end of the callback: router.route( ... ) and router.checkRoute(),
\* the first time only
initRouter(s) ==
    IF s.overflow \/ s.routerInited THEN s
    ELSE dispatch([s EXCEPT !.routerInited = TRUE], s.hash)

\* the callback handed to requestAnimationFrame
animationFrame(s, content, datas) ==
    initRouter(initFrames(s, content, datas, 1))

RECURSIVE onResize(_, _, _)
\* the resize listener Leaflet keeps on the window for every map that was
\* not removed, for the objects from m on: a full screen map is as wide as
\* the window, another map as wide as its container has become
onResize(s, m, width) ==
    IF m >= s.nextId THEN s
    ELSE onResize(IF s.alive[m]
                  THEN invalidateSize(s, m, IF s.options[m].fullscreen
                                            THEN s.windowWidth ELSE width)
                  ELSE s,
                  m + 1, width)

(***************************************************************************)
(* The inputs of the model.                                                *)
(***************************************************************************)
GeoMarker == << Marker(10 * Deg, 20 * Deg) >>
GeoMask == << Polygon(<< Box(-95 * Deg, -190 * Deg, 95 * Deg, 190 * Deg),
                         Box(40 * Deg, 0, 50 * Deg, 10 * Deg) >>) >>
GeoMalformed == << Malformed >>

\* what the loader resolves one data group to
GroupData == { << >>, GeoMarker, GeoMalformed }
\* what the loader resolves inline data to
InlineResults == { << >>, << << >> >>, << GeoMask >> }

\* loadGroups( dataGroups ) resolves with one group per identifier
GroupResults(dataGroups) ==
    { groups \in [1 .. Len(dataGroups) -> [id : {"g1", "g2"}, geoJson : GroupData]] :
        \A i \in 1 .. Len(dataGroups) : groups[i].id = dataGroups[i] }

RECURSIVE Resolved(_, _, _)
\* the groups of a batch the loader has a result for, from i on
Resolved(dataGroups, results, i) ==
    IF i > Len(dataGroups) THEN << >>
    ELSE (IF results[i].found
          THEN << [id |-> dataGroups[i], geoJson |-> results[i].geoJson] >>
          ELSE << >>) \o Resolved(dataGroups, results, i + 1)

\* loadGroups( dataGroups ) resolves with the groups that were found; one
\* that was found may have no data, or data that does not render
BatchResults(dataGroups) ==
    { Resolved(dataGroups, results, 1) :
        results \in [1 .. Len(dataGroups) -> [found : BOOLEAN, geoJson : GroupData]] }

Here == Arr(Num(10 * Deg), Num(20 * Deg))
There == Pos(Arr(Num(30 * Deg), Num(200 * Deg)), Num(9))

\* the options code outside this module passes to kartobox.map
BoxOptions(id) ==
    LET base == [container |-> [content |-> 0, element |-> id, visible |-> TRUE,
                               width |-> FrameWidth],
                 center |-> Here, zoom |-> Num(5),
                 dataGroups |-> << >>, data |-> FALSE, link |-> FALSE,
                 fullscreen |-> FALSE, alwaysInteractive |-> FALSE,
                 fullScreenRoute |-> << >>,
                 parentMap |-> None, parentLink |-> None]
    IN { [base EXCEPT !.link = TRUE, !.data = TRUE],
         [base EXCEPT !.center = Arr(NaN, NaN), !.zoom = NaN,
                      !.dataGroups = << "g1", "g2" >>],
         [base EXCEPT !.center = Undefined, !.zoom = Num(7),
                      !.dataGroups = << "g1" >>, !.data = TRUE,
                      !.container.visible = FALSE] }

\* a ring around the world and past it, and the GeoJSON values the bounds
\* are computed from: leaves inside the world, on its edge and outside it,
\* alone and together, and geomasks
WorldRing == Box(-95 * Deg, -190 * Deg, 95 * Deg, 190 * Deg)
Shapes ==
    { GeoMarker,
      << Marker(10 * Deg, 20 * Deg), Marker(95 * Deg, 20 * Deg) >>,
      << Marker(95 * Deg, 20 * Deg) >>,
      << Polygon(<< worldLatLng >>) >>,
      << Polygon(<< WorldRing >>) >>,
      GeoMask,
      << Polygon(<< WorldRing, Box(40 * Deg, 0, 50 * Deg, 10 * Deg),
                    Box(-20 * Deg, -30 * Deg, -10 * Deg, -5 * Deg) >>) >>,
      << Polygon(<< WorldRing, Box(40 * Deg, 0, 50 * Deg, 200 * Deg) >>) >>,
      << Polygon(<< Box(0, 0, 30 * Deg, 30 * Deg),
                    Box(10 * Deg, 10 * Deg, 20 * Deg, 20 * Deg) >>) >>,
      << Polygon(<< Box(0, 0, 10 * Deg, 10 * Deg),
                    Box(0, 0, 10 * Deg, 190 * Deg) >>) >> }

\* a center that rounds to Here at zoom 5 and not at zoom 13, and one
\* whose longitude is past 180
Near == LatLng(10 * Deg + 40, 20 * Deg)
Far == LatLng(30 * Deg, 200 * Deg)

\* options of maps with a route: center and zoom given, a center without
\* zoom, and no center (with a data group to fit the view to), in a
\* container that is visible or not
HashOptions(id) ==
    LET base == [container |-> [content |-> 0, element |-> id, visible |-> TRUE,
                               width |-> FrameWidth],
                 center |-> Here, zoom |-> Num(5),
                 dataGroups |-> << >>, data |-> FALSE, link |-> FALSE,
                 fullscreen |-> FALSE, alwaysInteractive |-> FALSE,
                 fullScreenRoute |-> MapRoute(<< "0" >>),
                 parentMap |-> None, parentLink |-> None]
    IN { base, [base EXCEPT !.zoom = Undefined],
         [base EXCEPT !.center = Undefined, !.zoom = Undefined,
                      !.dataGroups = << "g1" >>],
         [base EXCEPT !.center = Undefined, !.dataGroups = << "g1" >>,
                      !.container.visible = FALSE] }

\* options of the maps setView is called on: with center and zoom, without
\* either, with a zoom alone in a container that is not visible, and with
\* values that are not numbers; all but the first with a data group
ViewOptions(id) ==
    LET base == [container |-> [content |-> 0, element |-> id, visible |-> TRUE,
                               width |-> FrameWidth],
                 center |-> Here, zoom |-> Num(5),
                 dataGroups |-> << >>, data |-> FALSE, link |-> FALSE,
                 fullscreen |-> FALSE, alwaysInteractive |-> FALSE,
                 fullScreenRoute |-> << >>,
                 parentMap |-> None, parentLink |-> None]
    IN { base,
         [base EXCEPT !.center = Undefined, !.zoom = Undefined,
                      !.dataGroups = << "g1" >>],
         [base EXCEPT !.center = Undefined, !.zoom = Num(7),
                      !.dataGroups = << "g1" >>, !.container.visible = FALSE],
         [base EXCEPT !.center = Arr(NaN, NaN), !.zoom = NaN,
                      !.dataGroups = << "g1" >>] }

\* options of the maps whose initial position is followed: with center and
\* zoom in a visible container, and with a zoom alone in one that is not
InitialOptions(id) ==
    LET base == [container |-> [content |-> 0, element |-> id, visible |-> TRUE,
                               width |-> FrameWidth],
                 center |-> Here, zoom |-> Num(5),
                 dataGroups |-> << >>, data |-> FALSE, link |-> FALSE,
                 fullscreen |-> FALSE, alwaysInteractive |-> FALSE,
                 fullScreenRoute |-> << >>,
                 parentMap |-> None, parentLink |-> None]
    IN { base,
         [base EXCEPT !.center = Undefined, !.zoom = Num(7),
                      !.container.visible = FALSE] }

\* the centers and zooms setView is called with
ViewCenters == { Undefined, Arr(Num(10 * Deg), NaN),
                 Arr(Num(30 * Deg), Num(40 * Deg)), Near }
ViewZooms == { Undefined, NaN, Num(9), Num(maxZoom) }

\* options of a map without center: the view is fitted to the layers
FitOptions(id) ==
    LET base == [container |-> [content |-> 0, element |-> id, visible |-> TRUE,
                               width |-> FrameWidth],
                 center |-> Undefined, zoom |-> Undefined,
                 dataGroups |-> << >>, data |-> FALSE, link |-> FALSE,
                 fullscreen |-> FALSE, alwaysInteractive |-> FALSE,
                 fullScreenRoute |-> << >>,
                 parentMap |-> None, parentLink |-> None]
    IN { base, [base EXCEPT !.zoom = Num(7)],
         [base EXCEPT !.container.visible = FALSE] }

\* the identifiers addGeoJSONLayer is called with from outside: one of the
\* batch, one of no batch
GroupIds == { "g1", "g4" }

\* the identifiers of a batch of data groups
Batch == << "g1", "g2", "g3" >>

\* options with a batch of three data groups, with and without inline data
LoadOptions(id) ==
    LET base == [container |-> [content |-> 0, element |-> id, visible |-> TRUE,
                               width |-> FrameWidth],
                 center |-> Here, zoom |-> Num(5),
                 dataGroups |-> Batch, data |-> FALSE,
                 link |-> FALSE,
                 fullscreen |-> FALSE, alwaysInteractive |-> FALSE,
                 fullScreenRoute |-> << >>,
                 parentMap |-> None, parentLink |-> None]
    IN { base, [base EXCEPT !.data = TRUE] }

\* options without data: a map of the document, one that is always
\* interactive, and one made for the full screen
PlainOptions(id) ==
    LET base == [container |-> [content |-> 0, element |-> id, visible |-> TRUE,
                               width |-> FrameWidth],
                 center |-> Here, zoom |-> Num(5),
                 dataGroups |-> << >>, data |-> FALSE, link |-> FALSE,
                 fullscreen |-> FALSE, alwaysInteractive |-> FALSE,
                 fullScreenRoute |-> << >>,
                 parentMap |-> None, parentLink |-> None]
    IN { base, [base EXCEPT !.alwaysInteractive = TRUE],
         [base EXCEPT !.fullscreen = TRUE] }

\* the widths the window takes, and those the container of a map takes
WindowWidths == { 400, 480, 481, 1000 }
ContainerWidths == { 200, 300, 800 }

\* the positions code outside this module passes to openFullScreen
OpenPositions == { Undefined, There }

\* the map elements a document can hold: the result of getMapData and
\* whether the element is visible
Frames ==
    { [data |-> [latitude |-> Num(10 * Deg), longitude |-> Num(20 * Deg),
                 zoom |-> Num(5), overlays |-> << >>],
       visible |-> TRUE] }

\* the documents the hook fires with, and the map elements in each
Contents == 1 .. 2
FramesIn(content) == content

\* the options of an object that does not exist yet
NoOptions == [container |-> << >>]
\* no route handler has run yet
NoDispatch == [route |-> << >>, matched |-> FALSE]

Init ==
    /\ maps = << >> /\ routerInited = FALSE /\ rafQueue = << >>
    /\ hash = << >> /\ firings = 0
    /\ nextId = 1
    /\ options = [m \in Ids |-> NoOptions]
    /\ closure = [m \in Ids |-> Undefined]
    /\ alive = [m \in Ids |-> FALSE]
    /\ visible = [m \in Ids |-> FALSE]
    /\ kartographer_ready = [m \in Ids |-> FALSE]
    /\ listeners = [m \in Ids |-> << >>]
    /\ fullScreenMap = [m \in Ids |-> None]
    /\ dataLayers = [m \in Ids |-> << >>]
    /\ mapLayers = [m \in Ids |-> << >>]
    /\ initialPosition = [m \in Ids |-> Undefined]
    /\ view = [m \in Ids |-> Undefined]
    /\ updatingHash = [m \in Ids |-> FALSE]
    /\ dragging = [m \in Ids |-> FALSE]
    /\ groupLoad = [m \in Ids |-> "none"]
    /\ inlineLoad = [m \in Ids |-> "none"]
    /\ inlineDataLayerId = 0
    /\ usingQueue = << >> /\ dialogLoaded = FALSE /\ dialogMap = None
    /\ readyFired = [m \in Ids |-> 0]
    /\ lastRemoved = << >> /\ loaderCalls = {} /\ setViewCalled = {}
    /\ lastDispatch = NoDispatch
    /\ boundHistory = << >>
    /\ probes = << >> /\ probeCalls = << >>
    /\ static = [m \in Ids |-> "undefined"]
    /\ staticTimer = [m \in Ids |-> FALSE]
    /\ pendingTimers = [m \in Ids |-> 0]
    /\ sleep = [m \in Ids |-> "none"]
    /\ scrollWheelZoom = [m \in Ids |-> FALSE]
    /\ staticClass = [m \in Ids |-> FALSE]
    /\ size = [m \in Ids |-> 0]
    /\ windowWidth = WideWindow /\ resizes = 0
    /\ evaluations = [m \in Ids |-> 0]
    /\ transitions = [m \in Ids |-> 0]
    /\ loaded = [m \in Ids |-> << >>]
    /\ added = << >>
    /\ viewCalls = << >>
    /\ hashes = << >>
    /\ containerData = [m \in Ids |-> Undefined]
    /\ skipped = {}
    /\ requested = [m \in Ids |-> Undefined]
    /\ firingOf = [m \in Ids |-> 0]

(***************************************************************************)
(* The actions: one handler each.                                          *)
(***************************************************************************)
Constructed(m) == m < nextId

\* kartobox.map( options ) called by code outside this module
KartoboxMap(o) ==
    /\ nextId <= MaxInstances
    /\ Cardinality({m \in Ids : Constructed(m) /\ options[m].parentMap = None}) < MaxBoxes
    /\ Becomes(initialize(St, o))

\* the promise of addDataGroups is fulfilled: the loader resolved with
\* groups, or there was nothing to load
GroupsLoaded(m, groups) ==
    /\ Constructed(m)
    /\ \/ groupLoad[m] = "pending" /\ groups \in GroupResults(options[m].dataGroups)
       \/ groupLoad[m] = "nothing" /\ groups = << >>
    /\ LET s1 == addGroups(St, m, groups, 1)
           s2 == [s1 EXCEPT !.groupLoad[m] = "resolved"]
       IN Becomes(IF options[m].data
                  THEN \* map.addDataLayer( options.data )
                       [s2 EXCEPT !.inlineLoad[m] = "pending",
                                  !.loaderCalls = @ \cup {<< m, "inline" >>}]
                  ELSE ready(s2, m))

\* the same for a batch of which the loader found only some groups; what
\* it resolved with is kept
BatchLoaded(m, groups) ==
    /\ Constructed(m)
    /\ groupLoad[m] = "pending" /\ groups \in BatchResults(options[m].dataGroups)
    /\ LET s1 == addGroups([St EXCEPT !.loaded[m] = groups], m, groups, 1)
           s2 == [s1 EXCEPT !.groupLoad[m] = "resolved"]
       IN Becomes(IF options[m].data
                  THEN \* map.addDataLayer( options.data )
                       [s2 EXCEPT !.inlineLoad[m] = "pending",
                                  !.loaderCalls = @ \cup {<< m, "inline" >>}]
                  ELSE ready(s2, m))

\* map.addGeoJSONLayer( groupId, geoJson ), called from outside the class
AddGeoJSONLayer(m, groupId, geoJson) ==
    /\ Constructed(m)
    /\ Len(added) < MaxAdds
    /\ Becomes(addGeoJSONLayer(
           [St EXCEPT !.added = Append(@, [map |-> m, groupId |-> groupId,
                                           geoJson |-> geoJson])],
           m, groupId, geoJson))

\* map.setView( center, zoom, null, save ), called from outside the class
SetView(m, center, zoom, save) ==
    /\ Constructed(m)
    /\ Len(viewCalls) < MaxViews
    /\ Becomes(setView(
           [St EXCEPT !.viewCalls = Append(@, [map |-> m, center |-> center,
                                               zoom |-> zoom, save |-> save])],
           m, center, zoom, save))

\* map.getHash(), called from outside the class; L.Map.getCenter throws
\* on a map that has no view
GetHash(m) ==
    /\ Constructed(m)
    /\ initialPosition[m] = Undefined \/ view[m] # Undefined
    /\ Len(hashes) < MaxHashes
    /\ Becomes([St EXCEPT !.hashes = Append(@, [map |-> m, hash |-> getHash(St, m)])])

\* the loader rejected the data groups
GroupsFailed(m) ==
    /\ Constructed(m)
    /\ groupLoad[m] = "pending"
    /\ Becomes(ready([St EXCEPT !.groupLoad[m] = "rejected"], m))

\* the loader resolved the inline data
InlineLoaded(m, groups) ==
    /\ Constructed(m)
    /\ inlineLoad[m] = "pending"
    /\ LET s1 == addInlineGroups(St, m, groups, 1)
       IN Becomes(ready([s1 EXCEPT !.inlineLoad[m] = "resolved"], m))

\* the loader rejected the inline data: addDataLayer's promise has no
\* rejection handler
InlineFailed(m) ==
    /\ Constructed(m)
    /\ inlineLoad[m] = "pending"
    /\ Becomes([St EXCEPT !.inlineLoad[m] = "rejected"])

\* map.openFullScreen( position ): a double click, the control, a caller
OpenFullScreen(m, position) ==
    /\ Constructed(m) /\ alive[m]
    /\ options[m].parentMap = None
    /\ Becomes(openFullScreen(St, m, position))

\* map.closeFullScreen(), once the dialog module is there
CloseFullScreen(m) ==
    /\ Constructed(m) /\ alive[m]
    /\ dialogLoaded
    /\ dialogMap # None
    /\ Becomes(closeFullScreen(St, m))

\* map.remove()
Remove(m) ==
    /\ Constructed(m) /\ alive[m]
    /\ Becomes(removeCall(St, m))

\* the callback of mw.loader.using( 'ext.kartographer.dialog' )
UsingThen ==
    /\ usingQueue # << >>
    /\ LET map == Head(usingQueue)
           s1 == [St EXCEPT !.usingQueue = Tail(@), !.dialogLoaded = TRUE]
       IN Becomes(doWhenReady(s1, map, [k |-> "render", map |-> map]))

\* the router closes the dialog and leaves its map in transition
RouterClose ==
    /\ dialogMap # None
    /\ Becomes([dialogClose(St) EXCEPT !.updatingHash[dialogMap] = TRUE,
                                       !.hash = << >>])

\* map.doWhenReady( callback ) called by code outside this module
DoWhenReady(m) ==
    /\ Constructed(m)
    /\ Len(probes) < MaxProbes
    /\ LET id == Len(probes) + 1
           s1 == [St EXCEPT !.probes = Append(@, [map |-> m,
                                        wasReady |-> kartographer_ready[m]]),
                            !.probeCalls = Append(@, 0)]
       IN Becomes(doWhenReady(s1, m, [k |-> "probe", id |-> id]))

\* mw.hook( 'wikipage.content' ) fires
WikipageContent(content) ==
    /\ firings < MaxFirings
    /\ Becomes(wikipageContent(St, content))

\* the next draw cycle: the oldest deferred callback runs
AnimationFrame(datas) ==
    /\ rafQueue # << >>
    /\ Len(datas) = FramesIn(Head(rafQueue))
    /\ LET s1 == animationFrame([St EXCEPT !.rafQueue = Tail(@)],
                                Head(rafQueue), datas)
       IN Becomes([s1 EXCEPT !.firingOf =
                      [m \in Ids |-> IF m >= nextId /\ m < s1.nextId
                                     THEN firings - Len(rafQueue) + 1
                                     ELSE @[m]]])

\* the document's address changes to route
Navigate(route) ==
    /\ route # hash
    /\ LET s1 == [St EXCEPT !.hash = route]
       IN Becomes(IF routerInited THEN dispatch(s1, route) ELSE s1)

\* the window is resized to width, and the container of a map to frame
Resize(width, frame) ==
    /\ resizes < MaxResizes
    /\ Becomes(onResize([St EXCEPT !.windowWidth = width, !.resizes = @ + 1],
                        1, frame))

\* the timer of invalidateSize runs out: toggleStaticState is called
StaticTimer(m) ==
    /\ Constructed(m)
    /\ pendingTimers[m] > 0
    /\ Becomes(toggleStaticState([St EXCEPT !.pendingTimers[m] = @ - 1,
                                            !.staticTimer[m] = pendingTimers[m] > 1],
                                  m))

\* the collapsible element or section around a map whose container was not
\* visible at first is toggled: the listener initMapBox has added calls
\* invalidateSizeAndSetInitialView
SectionToggled(m, shown) ==
    /\ Constructed(m) /\ alive[m]
    /\ options[m].parentMap = None
    /\ ~options[m].container.visible
    /\ Becomes(invalidateSizeAndSetInitialView(
           [St EXCEPT !.visible[m] = shown], m,
           IF shown THEN options[m].container.width ELSE 0))

\* the handlers of a map used through kartobox.map
Next ==
    \/ \E o \in BoxOptions(nextId) : KartoboxMap(o)
    \/ \E m \in Ids : \E groups \in GroupResults(<< "g1", "g2" >>)
                          \cup GroupResults(<< "g1" >>) \cup {<< >>} :
          GroupsLoaded(m, groups)
    \/ \E m \in Ids : GroupsFailed(m)
    \/ \E m \in Ids : \E groups \in InlineResults : InlineLoaded(m, groups)
    \/ \E m \in Ids : InlineFailed(m)
    \/ \E m \in Ids : \E position \in OpenPositions : OpenFullScreen(m, position)
    \/ \E m \in Ids : CloseFullScreen(m)
    \/ \E m \in Ids : Remove(m)
    \/ UsingThen
    \/ RouterClose

Spec == Init /\ [][Next]_vars

\* the handlers of a map whose users wait for it with doWhenReady
NextReady ==
    \/ \E o \in BoxOptions(nextId) : KartoboxMap(o)
    \/ \E m \in Ids : \E groups \in GroupResults(<< "g1", "g2" >>)
                          \cup GroupResults(<< "g1" >>) \cup {<< >>} :
          GroupsLoaded(m, groups)
    \/ \E m \in Ids : GroupsFailed(m)
    \/ \E m \in Ids : \E groups \in InlineResults : InlineLoaded(m, groups)
    \/ \E m \in Ids : InlineFailed(m)
    \/ \E m \in Ids : OpenFullScreen(m, Undefined)
    \/ \E m \in Ids : Remove(m)
    \/ UsingThen
    \/ \E m \in Ids : DoWhenReady(m)

SpecReady == Init /\ [][NextReady]_vars

\* the handlers of a map in a window that is resized
NextResize ==
    \/ \E o \in PlainOptions(nextId) : KartoboxMap(o)
    \/ \E m \in Ids : GroupsLoaded(m, << >>)
    \/ \E m \in Ids : OpenFullScreen(m, Undefined)
    \/ UsingThen
    \/ \E width \in WindowWidths : \E frame \in ContainerWidths : Resize(width, frame)
    \/ \E m \in Ids : StaticTimer(m)

SpecResize == Init /\ [][NextResize]_vars

\* the handlers of a map that loads a batch of data groups
NextLoad ==
    \/ \E o \in LoadOptions(nextId) : KartoboxMap(o)
    \/ \E m \in Ids : \E groups \in BatchResults(Batch) : BatchLoaded(m, groups)
    \/ \E m \in Ids : GroupsFailed(m)
    \/ \E m \in Ids : \E groups \in InlineResults : InlineLoaded(m, groups)
    \/ \E m \in Ids : InlineFailed(m)
    \/ \E m \in Ids : \E groupId \in GroupIds : \E geoJson \in { GeoMask, GeoMalformed } :
           AddGeoJSONLayer(m, groupId, geoJson)

SpecLoad == Init /\ [][NextLoad]_vars

\* the handlers of a map whose view is fitted to its layers
NextBounds ==
    \/ \E o \in FitOptions(nextId) : KartoboxMap(o)
    \/ \E m \in Ids : GroupsLoaded(m, << >>)
    \/ \E m \in Ids : \E geoJson \in Shapes : AddGeoJSONLayer(m, "g4", geoJson)
    \/ \E m \in Ids : \E save \in BOOLEAN : SetView(m, Undefined, Undefined, save)

SpecBounds == Init /\ [][NextBounds]_vars

\* the handlers of a map whose route is asked for while its view is moved
NextHash ==
    \/ \E o \in HashOptions(nextId) : KartoboxMap(o)
    \/ \E m \in Ids : \E groups \in GroupResults(<< "g1" >>) \cup { << >> } :
           GroupsLoaded(m, groups)
    \/ \E m \in Ids : \E center \in { LatLng(10 * Deg, 20 * Deg), Near, Far } :
       \E zoom \in { Undefined, Num(5), Num(13) } : SetView(m, center, zoom, FALSE)
    \/ \E m \in Ids : GetHash(m)

SpecHash == Init /\ [][NextHash]_vars

\* the handlers of a map whose route is asked for at every zoom the tile
\* layer allows
NextScale ==
    \/ \E o \in {p \in HashOptions(nextId) : p.center = Here /\ p.zoom = Num(5)} :
           KartoboxMap(o)
    \/ \E m \in Ids : GroupsLoaded(m, << >>)
    \/ \E m \in Ids : \E center \in { Near, Far } : \E zoom \in 0 .. maxZoom :
           SetView(m, center, Num(zoom), FALSE)
    \/ \E m \in Ids : GetHash(m)

SpecScale == Init /\ [][NextScale]_vars

\* the handlers of a map on which setView is called
NextView ==
    \/ \E o \in ViewOptions(nextId) : KartoboxMap(o)
    \/ \E m \in Ids : \E groups \in GroupResults(<< "g1" >>) \cup { << >> } :
           GroupsLoaded(m, groups)
    \/ \E m \in Ids : \E center \in ViewCenters : \E zoom \in ViewZooms :
       \E save \in BOOLEAN : SetView(m, center, zoom, save)

SpecView == Init /\ [][NextView]_vars

\* the handlers of a map whose initial position is stored and used
NextInitial ==
    \/ \E o \in InitialOptions(nextId) : KartoboxMap(o)
    \/ \E m \in Ids : GroupsLoaded(m, << >>)
    \/ \E m \in Ids : \E center \in {Undefined, Near} : \E save \in BOOLEAN :
           SetView(m, center, Num(9), save)
    \/ \E m \in Ids : \E shown \in BOOLEAN : SectionToggled(m, shown)
    \/ \E m \in Ids : \E position \in OpenPositions : OpenFullScreen(m, position)
    \/ UsingThen

SpecInitial == Init /\ [][NextInitial]_vars

\* the handlers of the maps of a document, driven by the hook and the router
NextFrame ==
    \/ \E content \in Contents : WikipageContent(content)
    \/ \E datas \in UNION {[1 .. n -> Frames] : n \in 0 .. 2} : AnimationFrame(datas)
    \/ \E route \in Routes : Navigate(route)
    \/ \E m \in Ids : GroupsLoaded(m, << >>)
    \/ UsingThen

SpecFrame == Init /\ [][NextFrame]_vars

(***************************************************************************)
(* The properties.                                                         *)
(***************************************************************************)
\* the full screen maps constructed with parent p
Children(p) == {c \in Ids : Constructed(c) /\ options[c].parentMap = p}

\* every load map m started has settled
LoadsSettled(m) ==
    /\ Constructed(m)
    /\ groupLoad[m] \in {"resolved", "rejected"}
    /\ inlineLoad[m] # "pending"

\* C1: whatever the outcome of its loads, a map has fired 'ready' once
\* every load it started has settled.
C1_ReadyOnceLoadsSettled ==
    \A m \in Ids : LoadsSettled(m) => readyFired[m] >= 1

\* the loader rejected the inline data of a map whose groups had loaded
C1_InlineRejected ==
    \E m \in Ids : /\ LoadsSettled(m)
                   /\ groupLoad[m] = "resolved" /\ inlineLoad[m] = "rejected"
                   /\ readyFired[m] = 0 /\ ~kartographer_ready[m]

\* C2: 'ready' fires at most once on a map and the flag stays set; a
\* callback given to doWhenReady before that has run once when 'ready' has
\* fired and not before, one given after has run once when doWhenReady
\* returns.
C2_ReadySingleFire ==
    /\ [](\A m \in Ids : /\ readyFired[m] <= 1
                         /\ kartographer_ready[m] <=> readyFired[m] = 1)
    /\ [](\A i \in 1 .. Len(probes) :
             probeCalls[i] = IF kartographer_ready[probes[i].map] THEN 1 ELSE 0)
    /\ [][\A m \in Ids : kartographer_ready[m] => kartographer_ready'[m]]_vars
    /\ [][\A i \in 1 .. Len(probes) : probeCalls'[i] >= probeCalls[i]]_vars

\* one callback was given before the map was ready and one after, and each
\* has run once
C2_BothCallbacksRan ==
    \E i, j \in 1 .. Len(probes) :
        /\ probes[i].map = probes[j].map
        /\ ~probes[i].wasReady /\ probes[j].wasReady
        /\ probeCalls[i] = 1 /\ probeCalls[j] = 1

\* C3: as long as remove() has not been called, a map has at most one full
\* screen map constructed for it, and keeps its reference to it through
\* closeFullScreen and every later openFullScreen.
C3_OneChild ==
    lastRemoved = << >> =>
        \A p \in Ids :
            /\ Cardinality(Children(p)) <= 1
            /\ Children(p) = IF fullScreenMap[p] = None THEN {}
                             ELSE {fullScreenMap[p]}
            /\ Constructed(p) /\ options[p].link => Children(p) = {}

\* two opens on one map have both come to the dialog module with the same
\* full screen map, and the dialog was closed in between or not
C3_SecondOpenReused ==
    /\ lastRemoved = << >>
    /\ \E p \in Ids : /\ fullScreenMap[p] # None
                      /\ usingQueue = << fullScreenMap[p], fullScreenMap[p] >>

\* C4: once remove() has run on a map, a load of it that settles adds no
\* layer to it, does not place its view and does not fire 'ready' on it.
C4_SettleAfterRemoveIsNoOp ==
    [][\A m \in Ids :
          Constructed(m) /\ ~alive[m] =>
              /\ mapLayers'[m] = mapLayers[m]
              /\ dataLayers'[m] = dataLayers[m]
              /\ view'[m] = view[m]
              /\ readyFired'[m] = readyFired[m]]_vars

\* a removed map has layers, a view and has fired 'ready'
C4_RemovedMapCompleted ==
    \E m \in Ids : /\ Constructed(m) /\ ~alive[m]
                   /\ lastRemoved = << m >>
                   /\ readyFired[m] = 1 /\ mapLayers[m] # << >>
                   /\ view[m] # Undefined

\* C5: while a map is not ready, no full screen map has been constructed for
\* it, setView has not run on it and nothing of it has reached the dialog;
\* the dialog shows a map only when the dialog module is loaded and that map
\* is ready.
C5_OpenWaitsForReady ==
    /\ \A p \in Ids :
          Constructed(p) /\ ~kartographer_ready[p] =>
              /\ Children(p) = {} /\ fullScreenMap[p] = None
              /\ p \notin setViewCalled
              /\ dialogMap # p
              /\ \A i \in 1 .. Len(usingQueue) :
                    /\ usingQueue[i] # p
                    /\ options[usingQueue[i]].parentMap # p
    /\ dialogMap # None =>
          /\ dialogLoaded /\ kartographer_ready[dialogMap]
          /\ options[dialogMap].parentMap # None =>
                kartographer_ready[options[dialogMap].parentMap]

\* openFullScreen was called on a map before it was ready, and the dialog
\* shows its full screen map now
C5_OpenedOnceReady ==
    \E p \in Ids :
        /\ Constructed(p) /\ kartographer_ready[p]
        /\ listeners[p] # << >> /\ listeners[p][1].k = "open"
        /\ fullScreenMap[p] # None /\ dialogMap = fullScreenMap[p]

\* C6: constructing a map with a parent calls the loader for nothing, and
\* leaves the new map with the group identifiers its parent has.
C6_ChildCopiesLayers ==
    /\ [](\A c \in Ids : Constructed(c) /\ options[c].parentMap # None =>
             << c, "groups" >> \notin loaderCalls
             /\ << c, "inline" >> \notin loaderCalls)
    /\ [][\A c \in Ids :
             nextId = c /\ nextId' > c /\ options'[c].parentMap # None =>
                 /\ loaderCalls' = loaderCalls
                 /\ DOMAIN dataLayers'[c] = DOMAIN dataLayers'[options'[c].parentMap]
                 /\ \A g \in DOMAIN dataLayers'[c] :
                       dataLayers'[c][g] = dataLayers'[options'[c].parentMap][g]]_vars

\* a full screen map holds the two layers of its parent
C6_ChildHasLayers ==
    \E c \in Ids : /\ Constructed(c) /\ options[c].parentMap # None
                   /\ Cardinality(DOMAIN dataLayers[c]) = 2
                   /\ DOMAIN dataLayers[c] = DOMAIN dataLayers[options[c].parentMap]

\* the parent of map m, as remove() takes it
ParentOf(m) ==
    IF options[m].parentMap # None THEN options[m].parentMap
    ELSE options[m].parentLink

\* C7: remove() on a map with a full screen map removes that map first and
\* drops the reference to it; remove() on a map with a parent drops the
\* parent's reference; so a map never refers to a removed full screen map,
\* and the next openFullScreen constructs a new one.
C7_RemoveClearsBothSides ==
    /\ [](\A p \in Ids : fullScreenMap[p] # None => alive[fullScreenMap[p]])
    /\ [][\A m \in Ids :
             Constructed(m) /\ alive[m] /\ ~alive'[m] /\ lastRemoved'[Len(lastRemoved')] = m =>
                 /\ fullScreenMap'[m] = None
                 /\ lastRemoved' = IF fullScreenMap[m] # None
                                   THEN << fullScreenMap[m], m >> ELSE << m >>
                 /\ ParentOf(m) # None => fullScreenMap'[ParentOf(m)] = None]_vars

\* the first full screen map of a map was removed and the map has a second
C7_FreshChildAfterRemove ==
    \E p, c, d \in Ids :
        /\ c # d /\ {c, d} \subseteq Children(p)
        /\ ~alive[c] /\ alive[d] /\ fullScreenMap[p] = d

\* the route handler has just run
Dispatched == lastDispatch' # lastDispatch /\ lastDispatch'.matched

\* a decimal spelling without leading zeros
Canonical(key) == FormatNat(ToInt(key)) = key

\* C8 as stated: a route whose index is not in the registry resets the route
\* and opens nothing; a route whose index is in the registry opens the map
\* at that index and leaves the route.
C8_DispatchByIndex ==
    [][Dispatched =>
          LET d == lastDispatch'
              index == ToInt(d.groups.maptagId)
          IN IF index < Len(maps')
             THEN d.opened = maps'[index + 1] /\ ~d.navigated /\ hash' = d.route
             ELSE d.opened = None /\ d.navigated /\ hash' = << >>]_vars

\* C8: a route whose index segment, spelled without leading zeros, is in the
\* registry opens the map at that index and leaves the route; every other
\* matching route resets the route and opens nothing.
C8_DispatchByCanonicalIndex ==
    [][Dispatched =>
          LET d == lastDispatch'
              index == ToInt(d.groups.maptagId)
          IN IF Canonical(d.groups.maptagId) /\ index < Len(maps')
             THEN /\ d.opened = maps'[index + 1] /\ ~d.navigated /\ hash' = d.route
                  /\ \/ kartographer_ready[d.opened]
                     \/ listeners'[d.opened] =
                           Append(listeners[d.opened],
                                  [k |-> "open", position |-> d.position])
             ELSE /\ d.opened = None /\ d.navigated /\ hash' = << >>
                  /\ listeners' = listeners /\ usingQueue' = usingQueue]_vars

\* the route map/01 was reset although two maps are registered
C8_LeadingZeroReset ==
    /\ lastDispatch.matched /\ lastDispatch.groups.maptagId = << "0", "1" >>
    /\ lastDispatch.navigated /\ Len(maps) = 2 /\ hash = << >>

\* the position the text of a whole suffix spells
SuffixPosition(g) ==
    Pos(Arr(Num(ToCoordinate(g.latitude)), Num(ToCoordinate(g.longitude))),
        Num(ToInt(g.zoom)))

WholeSuffix(g) == g.zoom # << >> /\ g.latitude # << >> /\ g.longitude # << >>
NoSuffix(g) == g.zoom = << >> /\ g.latitude = << >> /\ g.longitude = << >>

\* C9 as stated: a matched route has the whole suffix or none of it; with
\* the whole suffix openFullScreen gets that center and zoom, with none the
\* initial position of the map.
C9_SuffixAsUnit ==
    [][Dispatched =>
          LET d == lastDispatch' IN
          /\ WholeSuffix(d.groups) \/ NoSuffix(d.groups)
          /\ d.opened # None =>
                d.position = IF WholeSuffix(d.groups) THEN SuffixPosition(d.groups)
                             ELSE initialPosition'[d.opened]]_vars

\* C9: with zoom, latitude and longitude all in the matched route,
\* openFullScreen gets that center and zoom; with any of them missing it
\* gets the initial position of the map, which is undefined until the map
\* is ready.
C9_WholeSuffixOrInitial ==
    /\ [][Dispatched /\ lastDispatch'.opened # None =>
             LET d == lastDispatch' IN
             /\ d.position = IF WholeSuffix(d.groups) THEN SuffixPosition(d.groups)
                             ELSE initialPosition'[d.opened]
             /\ ~kartographer_ready[d.opened] /\ ~WholeSuffix(d.groups) =>
                   d.position = Undefined]_vars
    /\ [](lastDispatch.matched /\ lastDispatch.opened # None
          /\ lastDispatch.route = MapRoute(<< "0", "/", "5", "/", "1", ".", "5", "/", "-", "2" >>)
          => lastDispatch.position =
                Pos(Arr(Num(150000), Num(0 - 200000)), Num(5)))

\* the route map/0/5 opened a ready map at its initial position
C9_ZoomOnlyOpened ==
    /\ lastDispatch.matched /\ lastDispatch.opened # None
    /\ lastDispatch.groups.zoom = << "5" >>
    /\ lastDispatch.groups.latitude = << >>
    /\ lastDispatch.position = Pos(LatLng(10 * Deg, 20 * Deg), Num(5))

\* C10 as stated: an index of the registry is bound to one map at most.
C10_IndexNeverRebound ==
    \A i \in 1 .. Len(boundHistory) : Cardinality(boundHistory[i]) <= 1

\* C10: between two firings of the content hook the registry only grows at
\* its end; a firing empties it and removes every map it held; the maps
\* registered afterwards are new ones, at indices counted from 0 again.
C10_AppendUntilReplaced ==
    /\ [][IF firings' = firings
          THEN /\ Len(maps') >= Len(maps)
               /\ SubSeq(maps', 1, Len(maps)) = maps
               /\ \A i \in Len(maps) + 1 .. Len(maps') :
                     maps'[i] >= nextId /\ alive'[maps'[i]]
          ELSE /\ maps' = << >>
               /\ \A i \in 1 .. Len(maps) : ~alive'[maps[i]]]_vars
    /\ [](\A i \in 1 .. Len(maps) : maps[i] \in boundHistory[i])

\* after a replacement index 0 is bound to a second map
C10_IndexBoundAgain ==
    /\ maps # << >> /\ Cardinality(boundHistory[1]) = 2
    /\ \E m \in boundHistory[1] : ~alive[m] /\ m # maps[1]

\* toggleStaticState has just run on map m
Evaluated(m) == evaluations'[m] # evaluations[m]

\* the mode the rule gives map m in the next state
RuleSaysStatic(m) == windowWidth' <= 480 \/ (size'[m] + 200) > windowWidth'

\* C11: after every run of toggleStaticState the map is static if and only
\* if the window is at most 480 wide or the map's width plus 200 exceeds the
\* window's, and interactive otherwise; the class of the container follows.
C11_ModeFollowsRule ==
    [][\A m \in Ids :
          Evaluated(m) =>
              /\ static'[m] = IF RuleSaysStatic(m) THEN "TRUE" ELSE "FALSE"
              /\ staticClass'[m] = RuleSaysStatic(m)
              /\ sleep'[m] = IF RuleSaysStatic(m) THEN "disabled" ELSE "enabled"]_vars

\* a map 200 wide is static in a window 480 wide, after a resize
C11_StaticBySmallWindow ==
    \E m \in Ids : /\ Constructed(m) /\ evaluations[m] >= 2 /\ ~staticTimer[m]
                   /\ windowWidth = 480 /\ size[m] = 200
                   /\ static[m] = "TRUE" /\ staticClass[m]

\* the window is at most 480 wide, was resized, and the timer a resize
\* started on map m, if any, has run
SmallWindowSettled(m) ==
    Constructed(m) /\ windowWidth <= 480 /\ resizes >= 1 /\ ~staticTimer[m]

\* the changes of mode of map m: none by a run of toggleStaticState that
\* computes the mode the map is in, and none while the window stays at
\* most 480 wide and the map is static
NoRepeatedToggle ==
    /\ [][\A m \in Ids :
             Evaluated(m) /\ static[m] = ToString(RuleSaysStatic(m)) =>
                 /\ static'[m] = static[m] /\ sleep'[m] = sleep[m]
                 /\ scrollWheelZoom'[m] = scrollWheelZoom[m]
                 /\ staticClass'[m] = staticClass[m]
                 /\ transitions'[m] = transitions[m]]_vars
    /\ [][\A m \in Ids :
             windowWidth <= 480 /\ windowWidth' <= 480 /\ static[m] = "TRUE" =>
                 static'[m] = "TRUE" /\ transitions'[m] = transitions[m]]_vars

\* C12, as stated: a run of toggleStaticState that computes the mode the
\* map is in changes nothing, and resizes to a window at most 480 wide make
\* every map that is not a full screen map static, once.
C12_SmallWindowMakesStatic ==
    /\ NoRepeatedToggle
    /\ [](\A m \in Ids :
            SmallWindowSettled(m) /\ ~options[m].fullscreen => static[m] = "TRUE")

\* C12: a run of toggleStaticState that computes the mode the map is in
\* changes nothing, and resizes to a window at most 480 wide make every map
\* constructed without fullscreen and without alwaysInteractive static,
\* once; a map constructed with alwaysInteractive is never made static.
C12_SameModeChangesNothing ==
    /\ NoRepeatedToggle
    /\ [](\A m \in Ids :
            SmallWindowSettled(m) /\ ~options[m].fullscreen =>
                IF options[m].alwaysInteractive
                THEN static[m] = "undefined" /\ transitions[m] = 0
                ELSE static[m] = "TRUE")

\* a map became interactive when constructed, static at the first of two
\* evaluations in a small window, and the second changed nothing
C12_StaticOnce ==
    \E m \in Ids : /\ evaluations[m] = 3 /\ transitions[m] = 2
                   /\ windowWidth <= 480 /\ resizes >= 2
                   /\ static[m] = "TRUE" /\ ~staticTimer[m]

\* C13: on a map constructed with fullscreen or with alwaysInteractive,
\* toggleStaticState never runs, no resize starts the timer, and the map is
\* never static.
C13_FullScreenNeverStatic ==
    \A m \in Ids :
        Constructed(m) /\ (options[m].fullscreen \/ options[m].alwaysInteractive) =>
            /\ evaluations[m] = 0 /\ ~staticTimer[m]
            /\ static[m] = "undefined" /\ ~staticClass[m]
            /\ sleep[m] = "none"

\* the window was resized while a full screen map was there: the timer of
\* its parent runs, its own does not
C13_ResizedWithFullScreenMap ==
    \E p, c \in Ids :
        /\ Constructed(c) /\ options[c].parentMap = p /\ options[c].fullscreen
        /\ resizes >= 1 /\ staticTimer[p] /\ ~staticTimer[c]
        /\ size[c] = windowWidth /\ windowWidth # WideWindow

\* the groups of a batch that were found with data that renders
Usable(groups) ==
    { i \in 1 .. Len(groups) : groups[i].geoJson # << >> /\ Renders(groups[i].geoJson) }

\* C14: when loadGroups resolves a batch of which some groups were not
\* found, were found empty or do not render, dataLayers gains exactly the
\* other groups of the batch, each with its data (so it holds exactly those
\* when it was empty before), and 'ready' is fired (or the load of the
\* inline data is started); when loadGroups is rejected, no layer is added
\* and 'ready' is fired.
C14_BatchKeepsUsableGroups ==
    [][\A m \in Ids :
          /\ groupLoad[m] = "pending" /\ groupLoad'[m] = "resolved" =>
                /\ DOMAIN dataLayers'[m] =
                       DOMAIN dataLayers[m]
                           \cup { loaded'[m][i].id : i \in Usable(loaded'[m]) }
                /\ \A i \in Usable(loaded'[m]) :
                       dataLayers'[m][loaded'[m][i].id] = loaded'[m][i].geoJson
                /\ IF options[m].data
                   THEN inlineLoad'[m] = "pending" /\ readyFired'[m] = 0
                   ELSE readyFired'[m] = 1 /\ kartographer_ready'[m]
          /\ groupLoad[m] = "pending" /\ groupLoad'[m] = "rejected" =>
                /\ dataLayers'[m] = dataLayers[m]
                /\ readyFired'[m] = 1]_vars

\* of three groups the first was found empty and the two after it have
\* their layers
C14_TwoOfThree ==
    \E m \in Ids :
        /\ Constructed(m) /\ options[m].dataGroups = Batch
        /\ groupLoad[m] = "resolved"
        /\ Len(loaded[m]) = 3 /\ loaded[m][1].geoJson = << >>
        /\ DOMAIN dataLayers[m] = { "g2", "g3" } /\ added = << >>
        /\ readyFired[m] = 1

\* the last call of addGeoJSONLayer made from outside the class
LastAdded == added'[Len(added')]

\* C15: a call of addGeoJSONLayer with data that does not render changes
\* neither dataLayers nor the layers of the map; a call with data that
\* renders binds the groupId to the new layer, in place of the layer the
\* groupId had, and leaves every other groupId alone; and in a batch every
\* group that renders has its layer, whatever the groups before it did.
C15_FailureChangesNothing ==
    /\ [][Len(added') > Len(added) =>
             IF Renders(LastAdded.geoJson)
             THEN /\ DOMAIN dataLayers'[LastAdded.map]
                        = DOMAIN dataLayers[LastAdded.map] \cup { LastAdded.groupId }
                  /\ dataLayers'[LastAdded.map][LastAdded.groupId] = LastAdded.geoJson
                  /\ \A g \in DOMAIN dataLayers[LastAdded.map] \ { LastAdded.groupId } :
                         dataLayers'[LastAdded.map][g] = dataLayers[LastAdded.map][g]
             ELSE dataLayers' = dataLayers /\ mapLayers' = mapLayers]_vars
    /\ [][\A m \in Ids :
             groupLoad[m] = "pending" /\ groupLoad'[m] = "resolved" =>
                 \A i \in Usable(loaded'[m]) :
                     /\ loaded'[m][i].id \in DOMAIN dataLayers'[m]
                     /\ \E k \in 1 .. Len(mapLayers'[m]) :
                            mapLayers'[m][k] = loaded'[m][i].geoJson]_vars

\* a first call from outside failed, a second gave the group g1 of the batch
\* a new layer
C15_FailedThenReplaced ==
    \E m \in Ids :
        /\ Constructed(m) /\ groupLoad[m] = "resolved"
        /\ \E i \in 1 .. Len(loaded[m]) :
               loaded[m][i].id = "g1" /\ loaded[m][i].geoJson = GeoMarker
        /\ Len(added) = 2
        /\ added[1] = [map |-> m, groupId |-> "g1", geoJson |-> GeoMalformed]
        /\ added[2] = [map |-> m, groupId |-> "g1", geoJson |-> GeoMask]
        /\ dataLayers[m]["g1"] = GeoMask

\* the least and the greatest number of a set
SetMin(S) == CHOOSE x \in S : \A y \in S : x <= y
SetMax(S) == CHOOSE x \in S : \A y \in S : x >= y

\* the smallest box around a set of boxes; none around no box
Hull(boxes) ==
    IF boxes = {} THEN NoBounds
    ELSE Box(SetMin({ b.s : b \in boxes }), SetMin({ b.w : b \in boxes }),
             SetMax({ b.n : b \in boxes }), SetMax({ b.e : b \in boxes }))

\* the bounding box of a leaf, and of its rings from the k-th on
OwnBox(leaf) ==
    IF leaf.kind = "marker" THEN Box(leaf.lat, leaf.lng, leaf.lat, leaf.lng)
    ELSE Hull({ leaf.rings[k] : k \in 1 .. Len(leaf.rings) })
RingsFrom(leaf, k) == Hull({ leaf.rings[j] : j \in k .. Len(leaf.rings) })

\* longitude in [-180, 180] and latitude in [-90, 90]
InEnvelope(b) ==
    /\ b.valid
    /\ -90 * Deg <= b.s /\ b.n <= 90 * Deg
    /\ -180 * Deg <= b.w /\ b.e <= 180 * Deg

\* the leaves of a feature layer, and of all layers of map m
LeavesIn(geoJson) == { geoJson[j] : j \in 1 .. Len(geoJson) }
LeavesOf(m) == UNION { LeavesIn(mapLayers[m][i]) : i \in 1 .. Len(mapLayers[m]) }

\* what the leaves of a set add to the bounds
Contributions(leaves) == { validateBounds(leaf) : leaf \in leaves } \ { NoBounds }

\* C16: a leaf whose bounding box is inside the world envelope adds that
\* box; a leaf outside it with fewer than two rings adds nothing; a feature
\* layer adds the union of what its leaves add and the map the union of
\* what its layers add, which is no bounds when no leaf adds any; and a
\* view that is fitted is fitted to those bounds, or to the world.
C16_UnionOfValidLeaves ==
    /\ [](\A m \in Ids :
            /\ \A leaf \in LeavesOf(m) :
                  /\ InEnvelope(OwnBox(leaf)) => validateBounds(leaf) = OwnBox(leaf)
                  /\ ~InEnvelope(OwnBox(leaf))
                        /\ (leaf.kind = "marker" \/ Len(leaf.rings) < 2)
                     => validateBounds(leaf) = NoBounds
            /\ \A i \in 1 .. Len(mapLayers[m]) :
                  FeatureBounds(mapLayers[m][i], 1)
                      = Hull(Contributions(LeavesIn(mapLayers[m][i])))
            /\ getValidBounds(mapLayers[m], 1) = Hull(Contributions(LeavesOf(m))))
    /\ [][\A m \in Ids :
             view'[m] # view[m] =>
                 LET fitted == Hull(Contributions(UNION {
                                   LeavesIn(mapLayers'[m][i]) :
                                       i \in 1 .. Len(mapLayers'[m]) }))
                     target == IF fitted.valid THEN fitted ELSE worldLatLng
                 IN view'[m].center = LatLng((target.s + target.n) \div 2,
                                             (target.w + target.e) \div 2)]_vars

\* the view was fitted to a layer of two markers, one of them outside the
\* world, next to a layer wholly outside it
C16_FittedToValidLeaf ==
    \E m \in Ids :
        /\ Len(mapLayers[m]) = 2
        /\ mapLayers[m][1] = << Marker(10 * Deg, 20 * Deg), Marker(95 * Deg, 20 * Deg) >>
        /\ mapLayers[m][2] = << Polygon(<< WorldRing >>) >>
        /\ Len(viewCalls) >= 1
        /\ view[m] # Undefined /\ view[m].center = LatLng(10 * Deg, 20 * Deg)

\* C17: a polygon whose bounding box is not inside the world envelope and
\* that has more than one ring adds the bounding box of its rings from the
\* second on when that box is inside the envelope, and nothing otherwise;
\* another first ring that leaves the polygon outside the envelope changes
\* nothing of that.
C17_MaskUsesInnerRings ==
    \A m \in Ids : \A leaf \in LeavesOf(m) :
        leaf.kind = "polygon" /\ Len(leaf.rings) >= 2 /\ ~InEnvelope(OwnBox(leaf)) =>
            /\ validateBounds(leaf) = IF InEnvelope(RingsFrom(leaf, 2))
                                      THEN RingsFrom(leaf, 2) ELSE NoBounds
            /\ \A outer \in { WorldRing, Box(-91 * Deg, 0, 0, 10 * Deg) } :
                   validateBounds(Polygon(<< outer >> \o Tail(leaf.rings)))
                       = validateBounds(leaf)

\* the view was fitted to the two inner rings of a geomask
C17_FittedToInnerRings ==
    \E m \in Ids :
        /\ Len(mapLayers[m]) = 1
        /\ mapLayers[m][1] = << Polygon(<< WorldRing,
                                         Box(40 * Deg, 0, 50 * Deg, 10 * Deg),
                                         Box(-20 * Deg, -30 * Deg, -10 * Deg, -5 * Deg) >>) >>
        /\ Len(viewCalls) >= 1
        /\ view[m] # Undefined /\ view[m].center = LatLng(15 * Deg, -10 * Deg)

\* the last call of getHash and the map it was made on
LastHash == hashes'[Len(hashes')]

\* a coordinate rounded to the decimal places of a zoom, as a number
Rounded(x, zoom) ==
    LET digits == IF zoom + 1 <= Len(precisionPerZoom)
                  THEN precisionPerZoom[zoom + 1] ELSE 0
        unit == Pow10(5 - digits)
    IN IF x < 0 THEN 0 - (((0 - x) + unit \div 2) \div unit)
       ELSE (x + unit \div 2) \div unit

\* the view of map m is at its initial position, after rounding; the zoom
\* of an initial position stored without one is the fallback zoom that
\* was applied with it
AtInitialPosition(m) ==
    LET initial == initialPosition[m]
        zoom == IF initial.zoom = Undefined THEN fallbackZoom ELSE initial.zoom.v
        current == wrap(view[m].center)
    IN /\ view[m].zoom = zoom
       /\ Rounded(current.lat, zoom) = Rounded(initial.center.lat, zoom)
       /\ Rounded(current.lng, zoom) = Rounded(initial.center.lng, zoom)

\* C18: getHash returns the route alone when no initial position is
\* stored; for a stored initial position with a center it returns the
\* route alone when the view is at that position after rounding (the zoom
\* being the fallback zoom where the position was stored without one), and
\* the route followed by zoom, latitude and longitude of the view when it
\* is not.
C18_PrefixAtInitialPosition ==
    [][Len(hashes') > Len(hashes) =>
          LET m == LastHash.map IN
          /\ LastHash.hash.route = options[m].fullScreenRoute
          /\ initialPosition[m] = Undefined => LastHash.hash.suffix = << >>
          /\ initialPosition[m] # Undefined /\ initialPosition[m].center # Undefined =>
                IF AtInitialPosition(m)
                THEN LastHash.hash.suffix = << >>
                ELSE /\ LastHash.hash.suffix # << >>
                     /\ LastHash.hash.suffix[1] = Num(view[m].zoom)]_vars

\* the same for the initial positions that were stored with a zoom
C18_PrefixAtInitialPositionWithZoom ==
    [][Len(hashes') > Len(hashes) =>
          LET m == LastHash.map IN
          /\ LastHash.hash.route = options[m].fullScreenRoute
          /\ initialPosition[m] = Undefined => LastHash.hash.suffix = << >>
          /\ /\ initialPosition[m] # Undefined
             /\ initialPosition[m].center # Undefined
             /\ initialPosition[m].zoom # Undefined
             => IF AtInitialPosition(m)
                THEN LastHash.hash.suffix = << >>
                ELSE /\ LastHash.hash.suffix # << >>
                     /\ LastHash.hash.suffix[1] = Num(view[m].zoom)]_vars

\* a map constructed with a center and no zoom is ready, its view where
\* initView and setView put it, and getHash has returned a suffix
C18_SuffixAtFallbackZoom ==
    \E m \in Ids :
        /\ Constructed(m) /\ kartographer_ready[m] /\ viewCalls = << >>
        /\ initialPosition[m] = Pos(LatLng(10 * Deg, 20 * Deg), Undefined)
        /\ view[m] = [center |-> LatLng(10 * Deg, 20 * Deg), zoom |-> fallbackZoom]
        /\ Len(hashes) = 1 /\ hashes[1].map = m
        /\ hashes[1].hash.suffix # << >>

\* the last call of setView made from outside the class
LastView == viewCalls'[Len(viewCalls')]

\* the state after one more call of setView with the arguments of the last
Again == setView(St', LastView.map, LastView.center, LastView.zoom, LastView.save)

\* C19: after a call of setView, in whatever state it was made, a second
\* call with the same arguments leaves the view (center and zoom) and the
\* stored initial position as the first left them.
C19_SetViewTwiceIsOnce ==
    [][Len(viewCalls') > Len(viewCalls) =>
          /\ Again.view[LastView.map] = view'[LastView.map]
          /\ Again.initialPosition[LastView.map] = initialPosition'[LastView.map]]_vars

\* setView was called twice with the same arguments on a map whose view
\* is fitted to its layer and saved
C19_FittedTwice ==
    \E m \in Ids :
        /\ Len(viewCalls) = 2 /\ viewCalls[1] = viewCalls[2]
        /\ viewCalls[1] = [map |-> m, center |-> Arr(Num(10 * Deg), NaN),
                           zoom |-> Num(9), save |-> TRUE]
        /\ mapLayers[m] = << GeoMarker >> /\ visible[m]
        /\ initialPosition[m] = Pos(view[m].center, Num(view[m].zoom))
        /\ view[m].center = LatLng(10 * Deg, 20 * Deg)

\* a center setView takes as it is: an L.LatLng, or an array of two numbers
ValidCenter(center) ==
    \/ center.t = "latlng"
    \/ center.t = "array" /\ center.a.t = "num" /\ center.b.t = "num"

\* C20: a call of setView with a valid center puts the view at that center,
\* at the zoom given or at the fallback zoom when the zoom is undefined or
\* not a number, and stores nothing; with a center that is absent or has an
\* entry that is not a number the view is fitted to the layers, or to the
\* world; either way the map has a view with a center and a zoom.  initView
\* stores a center with an entry that is not a number as undefined.
C20_ValidCenterAppliedDirectly ==
    /\ [][Len(viewCalls') > Len(viewCalls) =>
             LET m == LastView.map
                 fitted == Hull(Contributions(LeavesOf(m)))
                 target == IF fitted.valid THEN fitted ELSE worldLatLng
             IN /\ IF ValidCenter(LastView.center)
                   THEN /\ view'[m].center =
                              IF LastView.center.t = "array"
                              THEN LatLng(LastView.center.a.v, LastView.center.b.v)
                              ELSE LastView.center
                        /\ view'[m].zoom = IF LastView.zoom.t = "num"
                                           THEN LastView.zoom.v ELSE fallbackZoom
                        /\ initialPosition'[m] = initialPosition[m]
                   ELSE view'[m].center = LatLng((target.s + target.n) \div 2,
                                                 (target.w + target.e) \div 2)
                /\ view'[m].center.t = "latlng"
                /\ view'[m].zoom \in 0 .. maxZoom]_vars
    /\ [](\A m \in Ids :
            initialPosition[m] # Undefined =>
                /\ initialPosition[m].center.t \in { "undefined", "latlng" }
                /\ initialPosition[m].zoom.t \in { "undefined", "num" })

\* a map constructed with [ NaN, NaN ] has no initial center; setView put
\* its view at a valid center with the fallback zoom
C20_FallbackZoomApplied ==
    \E m \in Ids :
        /\ Constructed(m) /\ kartographer_ready[m]
        /\ initialPosition[m].center = Undefined
        /\ Len(viewCalls) >= 1
        /\ viewCalls[Len(viewCalls)] = [map |-> m, center |-> Arr(Num(30 * Deg), Num(40 * Deg)),
                                        zoom |-> NaN, save |-> TRUE]
        /\ view[m] = [center |-> LatLng(30 * Deg, 40 * Deg), zoom |-> fallbackZoom]

\* C21: a call of setView that fits the view writes the resulting center
\* and zoom to the initial position and to the data of the container when
\* save is set and the container is visible; when save is not set or the
\* container is not visible it leaves both as they were.
C21_SaveOnlyWhenVisible ==
    [][Len(viewCalls') > Len(viewCalls) =>
          LET m == LastView.map IN
          ~ValidCenter(LastView.center) =>
              IF visible[m] /\ LastView.save
              THEN /\ initialPosition'[m] = Pos(view'[m].center, Num(view'[m].zoom))
                   /\ containerData'[m] = [zoom |-> view'[m].zoom,
                                           longitude |-> view'[m].center.lng,
                                           latitude |-> view'[m].center.lat]
              ELSE /\ initialPosition'[m] = initialPosition[m]
                   /\ containerData'[m] = containerData[m]]_vars

\* setView was asked to save the fitted view of a map whose container is
\* not visible: the map is ready, has no initial center and no data
C21_UnseenFitNotSaved ==
    \E m \in Ids :
        /\ Constructed(m) /\ kartographer_ready[m] /\ ~visible[m]
        /\ mapLayers[m] = << GeoMarker >>
        /\ Len(viewCalls) >= 1
        /\ viewCalls[Len(viewCalls)].map = m /\ viewCalls[Len(viewCalls)].save
        /\ viewCalls[Len(viewCalls)].center = Undefined
        /\ view[m].center = LatLng(10 * Deg, 20 * Deg)
        /\ initialPosition[m] = Pos(Undefined, Num(7))
        /\ containerData[m] = Undefined

\* C22: a map constructed with options.link is its own full screen
\* target: whatever openFullScreen calls are made on it, no map is ever
\* constructed with it as parent, its fullScreenMap stays empty, and a map
\* handed to the dialog is never a map without parent that lacks
\* options.link, so what its opens hand to the dialog is the map itself.
C22_LinkIsOwnTarget ==
    /\ \A p \in Ids : Constructed(p) /\ options[p].link =>
           fullScreenMap[p] = None /\ Children(p) = {}
    /\ \A q \in Ids :
           (q = dialogMap \/ \E i \in DOMAIN usingQueue : usingQueue[i] = q) =>
               IF options[q].parentMap = None THEN options[q].link
               ELSE ~options[options[q].parentMap].link

\* a map with options.link was opened twice and is the map in the dialog
C22_LinkShownItself ==
    \E p \in Ids :
        /\ Constructed(p) /\ options[p].link /\ kartographer_ready[p]
        /\ dialogMap = p /\ usingQueue = << p >>
        /\ fullScreenMap[p] = None /\ nextId = p + 1

\* the map whose openFullScreen has map t as its target
OpenerOf(t) == IF options[t].link THEN t ELSE options[t].parentMap

\* C23: an openFullScreen that finds its target with _updatingHash set
\* changes nothing but that flag, which it clears: it applies no setView
\* and asks the dialog for nothing; an openFullScreen called next places
\* the target at the current position and asks the dialog to render it.
C23_TransitionOpenIsNoOp ==
    [][\A t \in Ids :
          updatingHash[t] /\ ~updatingHash'[t] =>
              /\ St' = [St EXCEPT !.updatingHash[t] = FALSE,
                                  !.skipped = @ \cup {t}]
              /\ LET next == openFullScreen(St', OpenerOf(t), Undefined)
                 IN /\ next.usingQueue = Append(usingQueue', t)
                    /\ next.view[t] = [center |-> getMapPosition(St', OpenerOf(t)).center,
                                       zoom |-> getMapPosition(St', OpenerOf(t)).zoom.v]
                    /\ next.updatingHash = updatingHash']_vars

\* an openFullScreen found the full screen map of a map in transition: the
\* dialog stays closed and nothing waits for it
C23_OpenSkipped ==
    \E p, t \in Ids :
        /\ Constructed(t) /\ fullScreenMap[p] = t /\ alive[t]
        /\ t \in skipped /\ ~updatingHash[t]
        /\ dialogMap = None /\ usingQueue = << >>

\* the view of a map placed at position
PlacedAt(position) ==
    [center |-> NormalizeCenter(position.center), zoom |-> position.zoom.v]

\* C24: when openFullScreen constructs a full screen map, the new map's
\* view is at the position the call was given, or at the current center and
\* zoom of its parent when it was given none; its initial position is the
\* initial position of its parent, and the call leaves the initial position
\* of the parent as it was.  (A second openFullScreen that waited for
\* 'ready' with the first runs in the same step and moves the view again.)
C24_ChildPlacedThenReset ==
    [][\A p \in Ids :
          Constructed(p) /\ alive[p] /\ fullScreenMap[p] = None
          /\ fullScreenMap'[p] # None =>
              LET c == fullScreenMap'[p] IN
              /\ c = nextId /\ options'[c].parentMap = p
              /\ requested'[c] \in {There, getMapPosition(St', p)}
              /\ kartographer_ready[p] \/ Len(listeners[p]) = 1 =>
                     view'[c] = PlacedAt(requested'[c])
              /\ initialPosition'[c] = initialPosition'[p]
              /\ kartographer_ready[p] =>
                     /\ initialPosition'[p] = initialPosition[p]
                     /\ view'[p] = view[p]]_vars

\* a full screen map constructed for a position other than the initial
\* position of its parent: its view is at that position, its initial
\* position is its parent's
C24_ChildAwayFromInitial ==
    \E p \in Ids :
        /\ Constructed(p) /\ fullScreenMap[p] # None
        /\ view[fullScreenMap[p]] = PlacedAt(There)
        /\ initialPosition[fullScreenMap[p]] = initialPosition[p]
        /\ requested[fullScreenMap[p]] = There
        /\ initialPosition[p] = Pos(Undefined, Num(7))

\* C25: a call of setView without a valid center and with a zoom that is a
\* number leaves the map at exactly that zoom.
C25_FittedZoomIsRequested ==
    [][Len(viewCalls') > Len(viewCalls) =>
          (~ValidCenter(LastView.center) /\ ~isNaN(LastView.zoom) =>
              view'[LastView.map].zoom = LastView.zoom.v)]_vars

\* setView was called without center and with zoom 9 on a map whose
\* initial zoom is 5: the map is at zoom 5
C25_InitialZoomReapplied ==
    \E m \in Ids :
        /\ Constructed(m) /\ kartographer_ready[m]
        /\ Len(viewCalls) >= 1
        /\ viewCalls[Len(viewCalls)].map = m
        /\ viewCalls[Len(viewCalls)].center = Undefined
        /\ viewCalls[Len(viewCalls)].zoom = Num(9)
        /\ initialPosition[m].zoom = Num(5)
        /\ view[m].zoom = 5

\* the initial position holds a center and a zoom
FullPair(position) ==
    /\ position # Undefined
    /\ position.center # Undefined /\ position.zoom # Undefined

Scaled == {i \in DOMAIN hashes : hashes[i].hash.suffix # << >>}

\* C27: the decimal places of the coordinates in a route do not decrease
\* as the zoom grows, over every zoom up to the maximum zoom of the tile
\* layer, and are never more than 5.
C27_PrecisionGrowsWithZoom ==
    \A i, j \in Scaled :
        LET a == hashes[i].hash.suffix
            b == hashes[j].hash.suffix
        IN /\ a[2].digits <= 5 /\ a[3].digits <= 5
           /\ a[1].v <= b[1].v => a[2].digits <= b[2].digits /\ a[3].digits <= b[3].digits

\* the same over the zooms up to 18, the last zoom precisionPerZoom has
\* an entry for
C27_PrecisionGrowsUpToTableEnd ==
    \A i, j \in Scaled :
        LET a == hashes[i].hash.suffix
            b == hashes[j].hash.suffix
        IN a[1].v < Len(precisionPerZoom) /\ b[1].v < Len(precisionPerZoom) =>
           /\ a[2].digits <= 5 /\ a[3].digits <= 5
           /\ a[1].v <= b[1].v => a[2].digits <= b[2].digits /\ a[3].digits <= b[3].digits

\* getHash returned a route at zoom 18 with 5 decimal places and then one
\* at zoom 19 with none
C27_NoDecimalsAtMaxZoom ==
    /\ Len(hashes) = 2
    /\ hashes[1].hash.suffix # << >> /\ hashes[2].hash.suffix # << >>
    /\ hashes[1].hash.suffix[1] = Num(18) /\ hashes[1].hash.suffix[2].digits = 5
    /\ hashes[2].hash.suffix[1] = Num(maxZoom) /\ hashes[2].hash.suffix[2].digits = 0

\* C28: a map has at most one timeout of invalidateSize waiting at any
\* time; a resize evaluates nothing itself and leaves every map that has
\* the timer with exactly one timeout waiting, whatever was waiting before;
\* and toggleStaticState runs after construction only when that timeout
\* runs out, once, with no timeout left: a run of resizes is followed by
\* one evaluation, after the last of them.
C28_DebounceLastWins ==
    /\ [](\A m \in Ids : pendingTimers[m] <= 1)
    /\ [][\A m \in Ids : Constructed(m) =>
             /\ resizes' > resizes =>
                    /\ evaluations'[m] = evaluations[m]
                    /\ alive[m] /\ sleep[m] # "none" /\ ~options[m].fullscreen =>
                           pendingTimers'[m] = 1
             /\ evaluations'[m] # evaluations[m] =>
                    /\ evaluations'[m] = evaluations[m] + 1
                    /\ resizes' = resizes
                    /\ pendingTimers[m] = 1 /\ pendingTimers'[m] = 0]_vars

\* three resizes, then the one evaluation they caused: the map was
\* evaluated at construction and once more, and no timeout is waiting
C28_BurstEvaluatedOnce ==
    \E m \in Ids :
        /\ Constructed(m) /\ sleep[m] # "none"
        /\ resizes = 3 /\ evaluations[m] = 2 /\ pendingTimers[m] = 0

\* C29: the registry holds only maps constructed for the last firing of
\* the content hook, every map constructed for a firing before it has been
\* removed, and no two registered maps that are not removed have the same
\* container.
C29_RegistryOfLastFiring ==
    /\ \A i \in DOMAIN maps : firingOf[maps[i]] = firings
    /\ \A m \in Ids : firingOf[m] # 0 /\ firingOf[m] < firings => ~alive[m]
    /\ \A i, j \in DOMAIN maps :
           i # j /\ alive[maps[i]] /\ alive[maps[j]] =>
               options[maps[i]].container # options[maps[j]].container

\* the hook fired twice with the same content before a deferred callback
\* ran: both callbacks have run, and the registry holds a map of each
\* firing, both in use, on the same element
C29_TwoMapsOnOneContainer ==
    /\ firings = 2 /\ rafQueue = << >> /\ Len(maps) = 2
    /\ firingOf[maps[1]] = 1 /\ firingOf[maps[2]] = 2
    /\ alive[maps[1]] /\ alive[maps[2]]
    /\ options[maps[1]].container = options[maps[2]].container

\* C30: for a map without parent the inline data are asked for only once
\* the data groups have resolved; the initial position is stored and the
\* view placed only once every load the map started has settled; 'ready'
\* is fired only on a map whose view is placed, in the step that places
\* it; and dragging is disabled from construction until then and enabled
\* from then on.
C30_LoadPlaceNotify ==
    /\ [](\A m \in Ids : Constructed(m) /\ options[m].parentMap = None =>
             /\ (inlineLoad[m] # "none" \/ << m, "inline" >> \in loaderCalls) =>
                    groupLoad[m] = "resolved"
             /\ (initialPosition[m] # Undefined \/ view[m] # Undefined) =>
                    LoadsSettled(m)
             /\ kartographer_ready[m] =>
                    initialPosition[m] # Undefined /\ view[m] # Undefined
             /\ dragging[m] <=> kartographer_ready[m])
    /\ [][\A m \in Ids :
             options'[m].container # << >> /\ options'[m].parentMap = None
             /\ readyFired'[m] # readyFired[m] =>
                 /\ readyFired[m] = 0 /\ readyFired'[m] = 1
                 /\ view[m] = Undefined /\ view'[m] # Undefined
                 /\ ~dragging[m] /\ dragging'[m]
                 /\ LoadsSettled(m)']_vars

\* a map that loaded a data group and then inline data, and is ready
C30_BothLoadsThenReady ==
    \E m \in Ids :
        /\ Constructed(m) /\ options[m].parentMap = None
        /\ groupLoad[m] = "resolved" /\ inlineLoad[m] = "resolved"
        /\ {<< m, "groups" >>, << m, "inline" >>} \subseteq loaderCalls
        /\ kartographer_ready[m] /\ dragging[m] /\ view[m] # Undefined

=============================================================================
